---------------------------- MODULE Spec2Model ----------------------------
(***************************************************************************)
(* Midi2Image: MIDI event stream -> note spans -> colour strip.            *)
(*                                                                         *)
(* Model of src/midi_to_image.py, of midi_to_frame_list in                 *)
(* src/midi_parser.py and of the share store of src/web_app.py.            *)
(*                                                                         *)
(* Times.  The code keeps times as floats in seconds.  Here a time is the  *)
(* integer numerator of a rational whose positive denominator is fixed for *)
(* a run:                                                                  *)
(*   - in the span extractor a time t stands for t / UnitsPerSecond        *)
(*     seconds, UnitsPerSecond = |ticks_per_beat| * 10^6, so that          *)
(*     tick * tempo * 1e-6 / ticks_per_beat is tick * tempo units (with    *)
(*     the sign of ticks_per_beat);                                        *)
(*   - in the strip builder, run on its own, a time t stands for           *)
(*     t / StripDen seconds;                                               *)
(*   - time_den holds the denominator in use.                              *)
(* Floating-point rounding is not modelled.                                *)
(***************************************************************************)
EXTENDS Integers, Sequences, FiniteSets, TLC

VARIABLES
    pc,               \* position of the running function
    error,            \* the exception raised, "none" while there is none
    path_exists,      \* os.path.exists(filepath)
    tracks,           \* mid.tracks
    merged,           \* the list mido.merge_tracks returns
    ticks_per_beat,   \* mid.ticks_per_beat
    tempo,            \* parse_midi_to_spans: tempo
    current_time,     \* parse_midi_to_spans: current_time
    active,           \* parse_midi_to_spans: active (a dict, in insertion order)
    spans,            \* parse_midi_to_spans / spans_to_color_strip: spans
    msg,              \* parse_midi_to_spans: the loop variable msg
    pos,              \* number of messages the loop has taken from the iterator
    time_den,         \* the denominator of the times in spans (not in the code)
    pixels_per_second,\* spans_to_color_strip: pixels_per_second
    background,       \* spans_to_color_strip: background (None or a pixel)
    strip,            \* the list spans_to_color_strip builds and returns, and
                      \* color_strip_to_rect_image is given
    total_pixels,     \* spans_to_color_strip: total_pixels
    idx,              \* spans_to_color_strip: the loop variable i
    ratio,            \* color_strip_to_rect_image: ratio
    noise,            \* color_strip_to_rect_image: noise
    pillow,           \* whether the import of PIL succeeded (Image is not None)
    width,            \* color_strip_to_rect_image: width
    height,           \* color_strip_to_rect_image: height
    data,             \* the pixels of the image color_strip_to_rect_image returns
    out_dir,          \* whether the directory of output_path exists
    out_file,         \* the file at output_path: None, or what was written
    png_read,         \* a PNG decoder at work on out_file: what it has read
    decoded,          \* the image the PNG decoder returns
    arg_note,         \* color_for_note: the argument note_number
    arg_velocity,     \* color_for_note: the argument velocity
    color,            \* the values color_for_note has returned, in call order
    tick_acc,         \* midi_to_frame_list: tick_acc
    frames,           \* midi_to_frame_list: frames
    caller,           \* a caller that runs a stage twice: the strip it
                      \* passed and what the first run returned
    shares_file,      \* web_app: the dict stored in SHARES_FILE
    shares_tmp,       \* web_app: the file SHARES_FILE.with_suffix(".tmp")
    handler           \* web_app: the requests the server's threads handle

vars == <<pc, error, path_exists, tracks, merged, ticks_per_beat, tempo,
          current_time, active, spans, msg, pos, time_den, pixels_per_second,
          background, strip, total_pixels, idx, ratio, noise, pillow, width,
          height, data, out_dir, out_file, png_read, decoded, arg_note,
          arg_velocity, color, tick_acc, frames, caller, shares_file,
          shares_tmp, handler>>

parseVars == <<tempo, current_time, active, spans, msg, pos>>
mergeVars == <<tracks, merged>>
stripVars == <<pixels_per_second, background, strip, total_pixels, idx>>
packVars  == <<ratio, noise, width, height, data>>
fileVars  == <<pillow, out_dir, out_file, png_read, decoded>>
colorVars == <<arg_note, arg_velocity, color>>
frameVars == <<tick_acc, frames>>
shareVars == <<shares_file, shares_tmp, handler>>
\* what midi_to_image and color_for_note leave alone
otherVars == <<frameVars, caller, shareVars>>
\* what the span extractor and the strip builder leave alone
laterVars == <<time_den, packVars, fileVars, colorVars, otherVars>>

-----------------------------------------------------------------------------
(* Bounds of the model *)

\* most messages before the closing end_of_track that the extractor loop takes
MaxMsgs == 4

\* most tracks of a file, and most messages (end_of_track aside) in its tracks
MaxTracks == 2

MaxFileMsgs == 3

\* most spans handed to the strip builder, their latest time (in 1 / StripDen
\* seconds) and the time grid of the strip builder's inputs
MaxSpans == 2

MaxSpanTime == 2

StripDen == 2

\* longest strip handed to the rectangle packer
MaxStrip == 13

\* calls of color_for_note on the same arguments
MaxCalls == 2

\* largest width and height given to _write_png, and how many of the leading
\* pixels of its buffers vary
MaxSide == 2

MaxFreePixels == 3

\* create-share requests the server handles at the same time
MaxRequests == 3

\* how far below 0 and above 127 the velocities given to color_for_note go
VelocityMargin == 2

\* the MIDI value ranges (data bytes are 7 bit, 16 channels)
MidiMax == 127

\* a default of 60 BPM
DEFAULT_TEMPO_60bpm == 2 * 500000

DEFAULT_TEMPO == 500000

MICROSECONDS == 1000000

None == "None"

\* the dict in the "{}" that _ensure_dirs writes to SHARES_FILE
NoShares == <<>>

\* a file that does not exist
NoFile == [exists |-> FALSE, data |-> NoShares]

Abs(x) == IF x < 0 THEN -x ELSE x

Max2(a, b) == IF a >= b THEN a ELSE b

Min2(a, b) == IF a <= b THEN a ELSE b

\* the inputs drawn
Channels == {0, 1}
Notes == {60, 64}
Velocities == {0, 100}
TickDeltas == {0, 480}
Tempos == {250000}
Resolutions == {480, 0, -480}

\* a message: mido's Message / MetaMessage; fields a type lacks are 0
Msg(type, time, channel, note, velocity, tmp) ==
    [type |-> type, time |-> time, channel |-> channel, note |-> note,
     velocity |-> velocity, tempo |-> tmp]

NoMsg == Msg("none", 0, 0, 0, 0, 0)

NoteOns == {Msg("note_on", d, c, n, v, 0) :
               d \in TickDeltas, c \in Channels, n \in Notes, v \in Velocities}
NoteOffs == {Msg("note_off", d, c, n, 64, 0) :
               d \in TickDeltas, c \in Channels, n \in Notes}
SetTempos == {Msg("set_tempo", d, 0, 0, 0, t) : d \in TickDeltas, t \in Tempos}
Others == {Msg("control_change", d, c, 0, 0, 0) : d \in TickDeltas, c \in {0}}
EndOfTracks == {Msg("end_of_track", d, 0, 0, 0, 0) : d \in TickDeltas}

\* what the merged stream holds before its closing end_of_track
Messages == NoteOns \cup NoteOffs \cup SetTempos \cup Others

-----------------------------------------------------------------------------
(* mido.merge_tracks(mid.tracks), the stream line 82 iterates over:         *)
(*     messages = []                                                        *)
(*     for track in tracks: messages.extend(_to_abstime(track))             *)
(*     messages.sort(key=lambda msg: msg.time)                              *)
(*     return MidiTrack(fix_end_of_track(_to_reltime(messages)))            *)
(* A message carries src = <<track, index>>, the identity of the message    *)
(* object it was made from (<<0, 0>> for the end_of_track that is added).   *)

Tag(m, t, k) ==
    [type |-> m.type, time |-> m.time, channel |-> m.channel, note |-> m.note,
     velocity |-> m.velocity, tempo |-> m.tempo, src |-> <<t, k>>]

Untag(m) == Msg(m.type, m.time, m.channel, m.note, m.velocity, m.tempo)

TagTrack(track, t) == [k \in 1..Len(track) |-> Tag(track[k], t, k)]

\* _to_abstime: delta times to running totals
RECURSIVE to_abstime(_, _)
to_abstime(messages, now) ==
    IF messages = <<>> THEN <<>>
    ELSE LET t == now + Head(messages).time
         IN  <<[Head(messages) EXCEPT !.time = t]>>
                 \o to_abstime(Tail(messages), t)

\* _to_reltime: running totals back to delta times
RECURSIVE to_reltime(_, _)
to_reltime(messages, now) ==
    IF messages = <<>> THEN <<>>
    ELSE <<[Head(messages) EXCEPT !.time = Head(messages).time - now]>>
             \o to_reltime(Tail(messages), Head(messages).time)

\* a sort that puts m before the messages of equal key
RECURSIVE InsertByTime_unstable(_, _)
InsertByTime_unstable(sorted, m) ==
    IF sorted = <<>> THEN <<m>>
    ELSE IF Head(sorted).time < m.time
         THEN <<Head(sorted)>> \o InsertByTime_unstable(Tail(sorted), m)
         ELSE <<m>> \o sorted

\* the place list.sort gives m among already sorted messages: after every
\* message whose key is not greater (the sort is stable)
RECURSIVE InsertByTime(_, _)
InsertByTime(sorted, m) ==
    IF sorted = <<>> THEN <<m>>
    ELSE IF Head(sorted).time <= m.time
         THEN <<Head(sorted)>> \o InsertByTime(Tail(sorted), m)
         ELSE <<m>> \o sorted

\* messages.sort(key=lambda msg: msg.time)
RECURSIVE SortByTime(_, _)
SortByTime(sorted, messages) ==
    IF messages = <<>> THEN sorted
    ELSE SortByTime(InsertByTime(sorted, Head(messages)), Tail(messages))

\* fix_end_of_track: drop every end_of_track, give its delta to the message
\* that follows, end with one end_of_track holding what is left
RECURSIVE fix_end_of_track(_, _)
fix_end_of_track(messages, accum) ==
    IF messages = <<>>
    THEN <<Tag(Msg("end_of_track", accum, 0, 0, 0, 0), 0, 0)>>
    ELSE IF Head(messages).type = "end_of_track"
         THEN fix_end_of_track(Tail(messages), accum + Head(messages).time)
         ELSE <<[Head(messages) EXCEPT !.time = accum + Head(messages).time]>>
                  \o fix_end_of_track(Tail(messages), 0)

\* messages.extend(_to_abstime(track)) for each track
RECURSIVE AllAbstime(_, _)
AllAbstime(tl, t) ==
    IF t > Len(tl) THEN <<>>
    ELSE to_abstime(TagTrack(tl[t], t), 0) \o AllAbstime(tl, t + 1)

merge_tracks(tl) ==
    fix_end_of_track(to_reltime(SortByTime(<<>>, AllAbstime(tl, 1)), 0), 0)

\* the files drawn: up to MaxTracks tracks holding up to MaxFileMsgs messages
\* between them, each track closed by its end_of_track
FileMessages ==
    {Msg("note_on", 0, 0, 60, 100, 0),
     Msg("note_off", 0, 0, 60, 64, 0),
     Msg("note_off", 480, 0, 60, 64, 0),
     Msg("set_tempo", 480, 0, 0, 0, 250000)}

\* the tracks of k messages and their end_of_track
TracksOfLen(k) ==
    {Append(b, e) : b \in [1..k -> FileMessages], e \in EndOfTracks}

RECURSIVE TrackLists(_, _)
TrackLists(n, budget) ==
    IF n = 0 THEN {<<>>}
    ELSE UNION {{<<tr>> \o rest : tr \in TracksOfLen(k),
                                  rest \in TrackLists(n - 1, budget - k)} :
                   k \in 0..budget}

FilesUpTo(maxTracks, maxMsgs) ==
    UNION {TrackLists(n, maxMsgs) : n \in 1..maxTracks}

-----------------------------------------------------------------------------
(* parse_midi_to_spans *)

\* one second, in the extractor's time units
UnitsPerSecond == Abs(ticks_per_beat) * MICROSECONDS

\* mido.tick2second: tick * (tempo * 1e-6 / ticks_per_beat), in time units
\* (ticks_per_beat = 0 raises ZeroDivisionError: see LoopBody)
tick2second(tick, tpb, tmp) ==
    IF tpb > 0 THEN tick * tmp ELSE -(tick * tmp)

NoteSpan(note, channel, start, end, velocity) ==
    [note |-> note, channel |-> channel, start |-> start, end |-> end,
     velocity |-> velocity]

\* the dict `active`: a sequence of entries in insertion order
Entry(key, start, vel) == [key |-> key, start |-> start, vel |-> vel]

DictKeys(d) == {d[k].key : k \in 1..Len(d)}

DictIndex(d, key) == CHOOSE k \in 1..Len(d) : d[k].key = key

DictGet(d, key) == d[DictIndex(d, key)]

\* d[key] = value: an existing key keeps its place, a new key goes last
DictSet(d, key, start, vel) ==
    IF key \in DictKeys(d)
    THEN [d EXCEPT ![DictIndex(d, key)] = Entry(key, start, vel)]
    ELSE Append(d, Entry(key, start, vel))

\* d.pop(key), the dict that is left
DictPop(d, key) ==
    LET k == DictIndex(d, key)
    IN  SubSeq(d, 1, k - 1) \o SubSeq(d, k + 1, Len(d))

IsNoteOn(m) == m.type = "note_on" /\ m.velocity > 0

IsNoteOff(m) == m.type = "note_off" \/ (m.type = "note_on" /\ m.velocity = 0)

KeyOf(m) == <<m.channel, m.note>>

\* lines 73-82: the existence check, MidiFile(filepath), the initial locals
\* and the merged list the loop iterates over
Open(stream) ==
    /\ pc = "open"
    /\ IF path_exists
       THEN /\ pc' = "loop"
            /\ error' = error
            /\ merged' = stream
       ELSE /\ pc' = "raised"
            /\ error' = "FileNotFoundError"
            /\ merged' = merged
    /\ UNCHANGED <<path_exists, ticks_per_beat, tracks, parseVars, stripVars,
                   laterVars>>

\* a note-on that records the time before its own delta was added
ActiveAfter_stale(m, now) ==
    IF IsNoteOn(m) THEN DictSet(active, KeyOf(m), current_time, m.velocity)
    ELSE IF IsNoteOff(m) /\ KeyOf(m) \in DictKeys(active)
         THEN DictPop(active, KeyOf(m))
         ELSE active

\* a note-off that reads the entry and leaves it in the table
ActiveAfter_nopop(m, now) ==
    IF IsNoteOn(m) THEN DictSet(active, KeyOf(m), now, m.velocity)
    ELSE active

\* a closing event that matches on the pitch alone, whatever the channel
ActiveAfter_pitchonly(m, now) ==
    IF IsNoteOn(m) THEN DictSet(active, KeyOf(m), now, m.velocity)
    ELSE IF IsNoteOff(m) /\ \E k \in DictKeys(active) : k[2] = m.note
         THEN DictPop(active, CHOOSE k \in DictKeys(active) : k[2] = m.note)
         ELSE active

\* a note-on for a key that is sounding leaves the entry of the first note-on
ActiveAfter_keepfirst(m, now) ==
    IF IsNoteOn(m)
    THEN IF KeyOf(m) \in DictKeys(active) THEN active
         ELSE DictSet(active, KeyOf(m), now, m.velocity)
    ELSE IF IsNoteOff(m) /\ KeyOf(m) \in DictKeys(active)
         THEN DictPop(active, KeyOf(m))
         ELSE active

\* lines 90-104: the note-on / note-off branches, on the time after the step
ActiveAfter(m, now) ==
    IF IsNoteOn(m) THEN DictSet(active, KeyOf(m), now, m.velocity)
    ELSE IF IsNoteOff(m) /\ KeyOf(m) \in DictKeys(active)
         THEN DictPop(active, KeyOf(m))
         ELSE active

\* a span built with start and end exchanged
SpansAfter_swapped(m, now) ==
    IF IsNoteOff(m) /\ KeyOf(m) \in DictKeys(active)
    THEN Append(spans, NoteSpan(m.note, m.channel, now,
                                DictGet(active, KeyOf(m)).start,
                                DictGet(active, KeyOf(m)).vel))
    ELSE spans

\* a span that takes the velocity of the event that closes it
SpansAfter_closingvel(m, now) ==
    IF IsNoteOff(m) /\ KeyOf(m) \in DictKeys(active)
    THEN Append(spans, NoteSpan(m.note, m.channel,
                                DictGet(active, KeyOf(m)).start, now,
                                m.velocity))
    ELSE spans

\* lines 92-104: the span a closing event adds
SpansAfter(m, now) ==
    IF IsNoteOff(m) /\ KeyOf(m) \in DictKeys(active)
    THEN Append(spans, NoteSpan(m.note, m.channel,
                                DictGet(active, KeyOf(m)).start, now,
                                DictGet(active, KeyOf(m)).vel))
    ELSE spans

\* a tempo change applied before its own delta is converted
ConversionTempo_new(m) == IF m.type = "set_tempo" THEN m.tempo ELSE tempo

\* line 83: the tempo the delta of m is converted at, the one set before m
ConversionTempo(m) == tempo

\* lines 82-104: one iteration of the loop over the merged messages
LoopBody(m) ==
    /\ msg' = m
    /\ pos' = pos + 1
    /\ IF ticks_per_beat = 0
       THEN \* tempo * 1e-6 / 0
            /\ pc' = "raised"
            /\ error' = "ZeroDivisionError"
            /\ UNCHANGED <<tempo, current_time, active, spans>>
       ELSE LET now == current_time
                         + tick2second(m.time, ticks_per_beat, ConversionTempo(m))
            IN  /\ current_time' = now
                /\ error' = error
                /\ pc' = IF m.type = "end_of_track" THEN "flush" ELSE "loop"
                /\ IF m.type = "set_tempo"
                   THEN /\ tempo' = m.tempo
                        /\ UNCHANGED <<active, spans>>
                   ELSE /\ tempo' = tempo
                        /\ active' = ActiveAfter(m, now)
                        /\ spans' = SpansAfter(m, now)

\* the loop takes the next message of the merged stream; merge_tracks ends
\* every stream with one end_of_track
ProcessMsg ==
    /\ pc = "loop"
    /\ \/ \E m \in Messages : pos < MaxMsgs /\ LoopBody(m)
       \/ \E m \in EndOfTracks : LoopBody(m)
    /\ UNCHANGED <<path_exists, ticks_per_beat, mergeVars, stripVars,
                   laterVars>>

\* the notes of one channel, struck at two velocities
RetriggerMessages ==
    {Msg("note_on", d, 0, n, v, 0) :
        d \in TickDeltas, n \in Notes, v \in {0, 64, 100}}
    \cup {Msg("note_off", d, 0, n, 64, 0) : d \in TickDeltas, n \in Notes}

\* the loop on a stream of these notes
ProcessNote ==
    /\ pc = "loop"
    /\ \/ \E m \in RetriggerMessages : pos < MaxMsgs /\ LoopBody(m)
       \/ \E m \in EndOfTracks : LoopBody(m)
    /\ UNCHANGED <<path_exists, ticks_per_beat, mergeVars, stripVars,
                   laterVars>>

\* the same loop over a merged list that was built from the file's tracks
NextMsg ==
    /\ pc = "loop"
    /\ pos < Len(merged)
    /\ LoopBody(Untag(merged[pos + 1]))
    /\ UNCHANGED <<path_exists, ticks_per_beat, mergeVars, stripVars,
                   laterVars>>

\* the extractor on an arbitrary merged stream
OpenMidi == Open(merged)

\* the extractor on the merge of the file's tracks
OpenFile == Open(merge_tracks(tracks))

\* hanging notes closed at their own start instead of the stream's end
HangingSpans_atstart(d, now) ==
    [k \in 1..Len(d) |->
        NoteSpan(d[k].key[2], d[k].key[1], d[k].start, d[k].start, d[k].vel)]

\* only the first hanging note closed
HangingSpans_first(d, now) ==
    [k \in 1..Min2(1, Len(d)) |->
        NoteSpan(d[k].key[2], d[k].key[1], d[k].start, now, d[k].vel)]

\* lines 106-116: one span per entry left in active, in the dict's order
HangingSpans(d, now) ==
    [k \in 1..Len(d) |->
        NoteSpan(d[k].key[2], d[k].key[1], d[k].start, now, d[k].vel)]

\* lines 106-118: close the hanging notes and return spans
CloseHanging ==
    /\ pc = "flush"
    /\ spans' = spans \o HangingSpans(active, current_time)
    /\ pc' = "done"
    /\ UNCHANGED <<error, path_exists, ticks_per_beat, tempo, current_time,
                   active, msg, pos, mergeVars, stripVars, laterVars>>

-----------------------------------------------------------------------------
(* color_for_note *)

\* NOTE_NAMES[note % 12] looked up in SHARP_COLORS, else in NATURAL_COLORS
BaseColor(class) ==
    CASE class = 0  -> <<255, 214, 10>>
      [] class = 1  -> <<255, 0, 255>>
      [] class = 2  -> <<46, 204, 113>>
      [] class = 3  -> <<153, 50, 204>>
      [] class = 4  -> <<201, 162, 39>>
      [] class = 5  -> <<31, 58, 147>>
      [] class = 6  -> <<180, 255, 0>>
      [] class = 7  -> <<93, 173, 226>>
      [] class = 8  -> <<255, 87, 34>>
      [] class = 9  -> <<139, 0, 0>>
      [] class = 10 -> <<0, 255, 255>>
      [] class = 11 -> <<44, 62, 80>>

\* the brightness 1 + 0.6 * (velocity / 127), never below the base colour, and
\* no cap
color_for_note_bright(note_number, velocity) ==
    LET base == BaseColor(note_number % 12)
        v == Max2(0, Min2(MidiMax, velocity))
    IN  [c \in 1..3 |-> (base[c] * (1270 + 6 * v)) \div 1270]

\* the velocity taken as it comes
color_for_note_noclamp(note_number, velocity) ==
    LET base == BaseColor(note_number % 12)
    IN  [c \in 1..3 |->
            Min2(255, (base[c] * (508 + 6 * velocity)) \div 1270)]

\* scale = 0.4 + 0.6 * (clamp(velocity) / 127) is (508 + 6 v) / 1270; int()
\* truncates the product, which is never negative
color_for_note(note_number, velocity) ==
    LET base == BaseColor(note_number % 12)
        v == Max2(0, Min2(MidiMax, velocity))
    IN  [c \in 1..3 |-> Min2(255, (base[c] * (508 + 6 * v)) \div 1270)]

\* a call of color_for_note with the arguments drawn; the calls made so far
\* are kept, the function keeps nothing
ColorCall ==
    /\ pc = "color"
    /\ Len(color) < MaxCalls
    /\ color' = Append(color, color_for_note(arg_note, arg_velocity))
    /\ UNCHANGED <<pc, error, path_exists, ticks_per_beat, parseVars, mergeVars,
                   stripVars, time_den, packVars, fileVars, arg_note,
                   arg_velocity, otherVars>>

-----------------------------------------------------------------------------
(* spans_to_color_strip; a time t stands for t / den seconds *)

RECURSIVE MaxEnd(_)
MaxEnd(ss) ==
    IF Len(ss) = 1 THEN ss[1].end
    ELSE Max2(ss[1].end, MaxEnd(Tail(ss)))

\* math.ceil(a / b) for b > 0
CeilDiv(a, b) == -((-a) \div b)

\* the product truncated instead of rounded up
TotalPixels_floor(ss, pps, den) == Max2(1, (MaxEnd(ss) * pps) \div den)

\* line 131: max(1, int(math.ceil(total_duration * pixels_per_second)))
TotalPixels(ss, pps, den) == Max2(1, CeilDiv(MaxEnd(ss) * pps, den))

\* the interval closed at its end: span.start <= t <= span.end
IsActiveAt_closed(span, i, pps, den) ==
    span.start * pps <= i * den /\ i * den <= span.end * pps

\* line 137 at t = i * step, step = 1 / pps: span.start <= t < span.end
IsActiveAt(span, i, pps, den) ==
    span.start * pps <= i * den /\ i * den < span.end * pps

\* the list `active` of line 137, as the indexes of its spans in order
ActiveAt(ss, i, pps, den) ==
    SelectSeq([k \in 1..Len(ss) |-> k],
              LAMBDA k : IsActiveAt(ss[k], i, pps, den))

\* lines 145-150: the channel sums over the active spans
RECURSIVE SumColors(_, _)
SumColors(ss, act) ==
    IF act = <<>> THEN <<0, 0, 0>>
    ELSE LET c == color_for_note(ss[Head(act)].note, ss[Head(act)].velocity)
             rest == SumColors(ss, Tail(act))
         IN  <<c[1] + rest[1], c[2] + rest[2], c[3] + rest[3]>>

\* the channel sums not divided by the count
AveragePixel_nodivide(ss, act) == SumColors(ss, act)

\* the channel sums divided rounding up instead of down
AveragePixel_roundup(ss, act) ==
    LET sum == SumColors(ss, act)
        count == Len(act)
    IN  <<CeilDiv(sum[1], count), CeilDiv(sum[2], count),
          CeilDiv(sum[3], count)>>

\* lines 151-152: (r // count, g // count, b // count)
AveragePixel(ss, act) ==
    LET sum == SumColors(ss, act)
        count == Len(act)
    IN  <<sum[1] \div count, sum[2] \div count, sum[3] \div count>>

\* random.randint(0, 255): the values drawn here
RandomBytes == {0, 255}

\* lines 126-133: the empty case, total_pixels and step
StripStart ==
    /\ pc = "strip"
    /\ IF spans = <<>>
       THEN \* return []
            /\ pc' = "strip_done"
            /\ strip' = <<>>
            /\ UNCHANGED <<error, total_pixels, idx>>
       ELSE /\ total_pixels' = TotalPixels(spans, pixels_per_second, time_den)
            /\ IF pixels_per_second = 0
               THEN \* step = 1.0 / 0
                    /\ pc' = "raised"
                    /\ error' = "ZeroDivisionError"
                    /\ UNCHANGED <<strip, idx>>
               ELSE /\ pc' = "strip_loop"
                    /\ strip' = <<>>
                    /\ idx' = 0
                    /\ error' = error
    /\ UNCHANGED <<path_exists, ticks_per_beat, parseVars, mergeVars,
                   pixels_per_second, background, laterVars>>

\* lines 135-152: one sample of the strip
StripSample ==
    /\ pc = "strip_loop"
    /\ idx < total_pixels
    /\ LET act == ActiveAt(spans, idx, pixels_per_second, time_den)
       IN  IF act = <<>>
           THEN IF background = None
                THEN \E r \in RandomBytes, g \in RandomBytes, b \in RandomBytes :
                        strip' = Append(strip, <<r, g, b>>)
                ELSE strip' = Append(strip, background)
           ELSE strip' = Append(strip, AveragePixel(spans, act))
    /\ idx' = idx + 1
    /\ UNCHANGED <<pc, error, path_exists, ticks_per_beat, parseVars, mergeVars,
                   pixels_per_second, background, total_pixels, laterVars>>

\* line 154: the loop is over, return strip
StripReturn ==
    /\ pc = "strip_loop"
    /\ idx >= total_pixels
    /\ pc' = "strip_done"
    /\ UNCHANGED <<error, path_exists, ticks_per_beat, parseVars, mergeVars,
                   stripVars, laterVars>>

-----------------------------------------------------------------------------
(* color_strip_to_rect_image *)

\* int(math.ceil(math.sqrt(num / den))) for num >= 0, den > 0: the least h
\* with h * h >= num / den
CeilSqrt(num, den) ==
    CHOOSE h \in 0..num :
        /\ h * h * den >= num
        /\ h > 0 => (h - 1) * (h - 1) * den < num

\* the square root rounded down instead of up
Height_floor(area, ratio_w, ratio_h) ==
    CHOOSE h \in 0..(area * ratio_h) :
        /\ h * h * ratio_w <= area * ratio_h
        /\ (h + 1) * (h + 1) * ratio_w > area * ratio_h

\* line 172: height = ceil(sqrt(area / target_ratio)), target_ratio =
\* ratio_w / ratio_h
Height(area, ratio_w, ratio_h) == CeilSqrt(area * ratio_h, ratio_w)

\* line 173: width = ceil(height * target_ratio)
Width(h, ratio_w, ratio_h) == CeilDiv(h * ratio_w, ratio_h)

\* the random pixels drawn for the padding
NoisePixels == {<<r, r, r>> : r \in RandomBytes}

\* random padding whatever the noise option
Paddings_noisy(needed, withNoise) ==
    IF needed <= 0 THEN {<<>>} ELSE [1..needed -> NoisePixels]

\* lines 176-181: the pixels appended to the strip, one list per outcome of
\* the random draws
Paddings(needed, withNoise) ==
    IF needed <= 0 THEN {<<>>}
    ELSE IF withNoise THEN [1..needed -> NoisePixels]
    ELSE {[k \in 1..needed |-> <<0, 0, 0>>]}

\* lines 183-190: strip[: width * height], the pixels of the image returned
\* (put in a Pillow image when Pillow is there, returned with width and
\* height when it is not)
ImageData(s, w, h) == SubSeq(s, 1, Min2(Len(s), w * h))

\* the empty strip let through
BadInput_ratioonly(s, r) == r[1] <= 0 \/ r[2] <= 0

\* lines 163-168: the inputs that raise ValueError
BadInput(s, r) == s = <<>> \/ r[1] <= 0 \/ r[2] <= 0

\* lines 157-190, the whole call; the padding is appended to the list the
\* caller passed
Pack ==
    /\ pc = "pack"
    /\ IF BadInput(strip, ratio)
       THEN \* lines 163-168
            /\ pc' = "raised"
            /\ error' = "ValueError"
            /\ UNCHANGED <<strip, width, height, data>>
       ELSE LET area == Len(strip)
                h == Height(area, ratio[1], ratio[2])
                w == Width(h, ratio[1], ratio[2])
                needed == w * h - area
            IN  /\ height' = h
                /\ width' = w
                /\ \E pad \in Paddings(needed, noise) :
                      /\ strip' = strip \o pad
                      /\ data' = ImageData(strip \o pad, w, h)
                /\ pc' = "packed"
                /\ error' = error
    /\ UNCHANGED <<path_exists, ticks_per_beat, parseVars, mergeVars, time_den,
                   pixels_per_second, background, total_pixels, idx, ratio,
                   noise, fileVars, colorVars,
                   otherVars>>

-----------------------------------------------------------------------------
(* _write_png; a byte string is a sequence of numbers in 0..255 *)

\* struct.pack("!I", n): four bytes, the most significant first
U32(n) ==
    <<(n \div 16777216) % 256, (n \div 65536) % 256, (n \div 256) % 256,
      n % 256>>

\* the exclusive or of two numbers of n bits
RECURSIVE XorBits(_, _, _)
XorBits(a, b, n) ==
    IF n = 0 THEN 0
    ELSE ((a + b) % 2) + 2 * XorBits(a \div 2, b \div 2, n - 1)

\* the exclusive or of two numbers of 4 bits, as a table
XorTable == [a \in 0..15 |-> [b \in 0..15 |-> XorBits(a, b, 4)]]

Xor8(a, b) ==
    XorTable[a \div 16][b \div 16] * 16 + XorTable[a % 16][b % 16]

Xor16(a, b) == Xor8(a \div 256, b \div 256) * 256 + Xor8(a % 256, b % 256)

\* zlib.crc32 keeps 32 bits, held here as <<high 16 bits, low 16 bits>>; one
\* bit of input: shift right, and xor the polynomial EDB88320 when a 1 fell out
CrcShift(c) ==
    LET hi == c[1] \div 2
        lo == (c[2] \div 2) + (c[1] % 2) * 32768
    IN  IF c[2] % 2 = 1
        THEN <<Xor16(hi, 60856), Xor16(lo, 33568)>>
        ELSE <<hi, lo>>

\* (the tests on `next` make TLC compute each step before the one after it)
RECURSIVE CrcShifts(_, _)
CrcShifts(c, n) ==
    IF n = 0 THEN c
    ELSE LET next == CrcShift(c)
         IN  IF next[1] >= 0 /\ next[2] >= 0
             THEN CrcShifts(next, n - 1) ELSE next

\* the table of the byte-wise algorithm: eight bits of input at once
CrcTable == [b \in 0..255 |-> CrcShifts(<<0, b>>, 8)]

\* one byte of input: crc = table[(crc ^ byte) & 0xFF] ^ (crc >> 8)
CrcByte(c, byte) ==
    LET t == CrcTable[Xor8(c[2] % 256, byte)]
    IN  <<Xor16(t[1], c[1] \div 256),
          Xor16(t[2], (c[2] \div 256) + (c[1] % 256) * 256)>>

\* the bytes from..to taken in, in order; the range is halved to keep the
\* nesting of the definition low
RECURSIVE CrcUpdate(_, _, _, _)
CrcUpdate(c, bytes, from, to) ==
    IF from > to THEN c
    ELSE IF from = to THEN CrcByte(c, bytes[from])
    ELSE LET mid == (from + to) \div 2
             next == CrcUpdate(c, bytes, from, mid)
         IN  IF next[1] >= 0 /\ next[2] >= 0
             THEN CrcUpdate(next, bytes, mid + 1, to) ELSE next

\* struct.pack("!I", zlib.crc32(bytes) & 0xFFFFFFFF)
Crc32Bytes(bytes) ==
    LET c == CrcUpdate(<<65535, 65535>>, bytes, 1, Len(bytes))
        hi == 65535 - c[1]
        lo == 65535 - c[2]
    IN  <<hi \div 256, hi % 256, lo \div 256, lo % 256>>

\* the Adler-32 checksum that ends a zlib stream, as <<b, a>>
RECURSIVE AdlerUpdate(_, _, _, _)
AdlerUpdate(ba, bytes, from, to) ==
    IF from > to THEN ba
    ELSE IF from = to
    THEN LET a1 == (ba[2] + bytes[from]) % 65521
         IN  <<(ba[1] + a1) % 65521, a1>>
    ELSE LET mid == (from + to) \div 2
             next == AdlerUpdate(ba, bytes, from, mid)
         IN  IF next[1] >= 0 /\ next[2] >= 0
             THEN AdlerUpdate(next, bytes, mid + 1, to) ELSE next

Adler32Bytes(bytes) ==
    LET ba == AdlerUpdate(<<0, 1>>, bytes, 1, Len(bytes))
    IN  <<ba[1] \div 256, ba[1] % 256, ba[2] \div 256, ba[2] % 256>>

\* zlib.compress(raw, level=9): a zlib stream that holds raw.  The stream
\* written here has the header of level 9 (78 DA), the data in one stored
\* block (final, LEN, NLEN, the bytes) and the Adler-32 of the data; the
\* library chooses among the streams that inflate to raw
zlib_compress(raw) ==
    <<120, 218,
      1, Len(raw) % 256, Len(raw) \div 256,
      255 - (Len(raw) % 256), 255 - (Len(raw) \div 256)>>
    \o raw \o Adler32Bytes(raw)

\* lines 194-200: the rows top to bottom, each a filter byte 0 then the
\* r, g, b of its pixels from left to right
RawScanlines(w, h, d) ==
    [j \in 1..(h * (1 + 3 * w)) |->
        LET y == (j - 1) \div (1 + 3 * w)
            o == (j - 1) % (1 + 3 * w)
        IN  IF o = 0 THEN 0
            ELSE d[y * w + ((o - 1) \div 3) + 1][((o - 1) % 3) + 1]]

\* the CRC taken over the payload alone
chunk_crcpayload(tag, payload) ==
    U32(Len(payload)) \o tag \o payload \o Crc32Bytes(payload)

\* lines 202-204: length, tag, payload, CRC of tag and payload
chunk(tag, payload) ==
    U32(Len(payload)) \o tag \o payload \o Crc32Bytes(tag \o payload)

PngSignature == <<137, 80, 78, 71, 13, 10, 26, 10>>
TagIHDR == <<73, 72, 68, 82>>
TagIDAT == <<73, 68, 65, 84>>
TagIEND == <<73, 69, 78, 68>>

\* the header with height before width
IhdrPayload_swapped(w, h) == U32(h) \o U32(w) \o <<8, 2, 0, 0, 0>>

\* line 209: struct.pack("!IIBBBBB", width, height, 8, 2, 0, 0, 0)
IhdrPayload(w, h) == U32(w) \o U32(h) \o <<8, 2, 0, 0, 0>>

\* lines 206-211: png_bytes
png_bytes(w, h, d) ==
    PngSignature
    \o chunk(TagIHDR, IhdrPayload(w, h))
    \o chunk(TagIDAT, zlib_compress(RawScanlines(w, h, d)))
    \o chunk(TagIEND, <<>>)

\* whether lines 194-200 find a pixel at every index they read and can put
\* each channel into a byte
PngWritable(w, h, d) ==
    /\ Len(d) >= w * h
    /\ \A k \in 1..(w * h) : \A c \in 1..3 : d[k][c] \in 0..255

\* the exception of lines 194-200: IndexError at the first index past the
\* end of data, ValueError at the first channel that is no byte
PngError(w, h, d) ==
    LET bad == {k \in 1..(w * h) :
                   k > Len(d) \/ \E c \in 1..3 : d[k][c] \notin 0..255}
        first == CHOOSE k \in bad : \A j \in bad : k <= j
    IN  IF first > Len(d) THEN "IndexError" ELSE "ValueError"

\* lines 193-214: the bytes are built, then the file is opened and written
WritePngEffect ==
    IF PngWritable(width, height, data)
    THEN /\ out_file' = png_bytes(width, height, data)
         /\ pc' = "saved"
         /\ error' = error
    ELSE /\ pc' = "raised"
         /\ error' = PngError(width, height, data)
         /\ out_file' = out_file

\* _write_png called on its own
WritePng ==
    /\ pc = "write"
    /\ WritePngEffect
    /\ UNCHANGED <<path_exists, ticks_per_beat, parseVars, mergeVars, stripVars,
                   time_den, packVars, pillow, out_dir, png_read, decoded,
                   colorVars,
                   otherVars>>

-----------------------------------------------------------------------------
(* midi_to_image: the three stages, then the file *)

\* line 224: the spans parse_midi_to_spans returned go to the strip builder,
\* with midi_to_image's pixels_per_second and no background
BuildStrip ==
    /\ pc = "done"
    /\ pc' = "strip"
    /\ background' = None
    /\ UNCHANGED <<error, path_exists, ticks_per_beat, parseVars, mergeVars,
                   pixels_per_second, strip, total_pixels, idx, laterVars>>

\* line 225: the strip goes to the packer with ratio (4, 3) and the default
\* noise
PackStrip ==
    /\ pc = "strip_done"
    /\ pc' = "pack"
    /\ ratio' = <<4, 3>>
    /\ noise' = TRUE
    /\ UNCHANGED <<error, path_exists, ticks_per_beat, parseVars, mergeVars,
                   stripVars, time_den, width, height, data, fileVars,
                   colorVars,
                   otherVars>>

\* what image.save leaves at output_path: the image, in Pillow's encoding
PillowFile(w, h, d) == <<"pillow", w, h, d>>

\* saving whether or not the stages before have failed
ReadyToSave_always == pc \in {"packed", "raised"}

\* lines 226-231 are reached when color_strip_to_rect_image has returned
ReadyToSave == pc = "packed"

\* lines 226-231: the directory is made, then the image is saved by Pillow
\* or written by _write_png
SaveImage ==
    /\ ReadyToSave
    /\ out_dir' = TRUE
    /\ IF pillow
       THEN /\ out_file' = PillowFile(width, height, data)
            /\ pc' = "saved"
            /\ error' = error
       ELSE WritePngEffect
    /\ UNCHANGED <<path_exists, ticks_per_beat, parseVars, mergeVars, stripVars,
                   time_den, packVars, pillow, png_read, decoded, colorVars,
                   otherVars>>

-----------------------------------------------------------------------------
(* a caller that takes spans to a strip, the strip to a canvas and the      *)
(* canvas to _write_png, with arguments of its own choice                   *)

\* the aspect ratios this caller asks for
CanvasRatios == {<<4, 3>>, <<1, 1>>}

\* color_strip_to_rect_image(strip, ratio, noise) on the strip returned
PackAny ==
    /\ pc = "strip_done"
    /\ pc' = "pack"
    /\ ratio' \in CanvasRatios
    /\ noise' \in BOOLEAN
    /\ UNCHANGED <<error, path_exists, ticks_per_beat, parseVars, mergeVars,
                   stripVars, time_den, width, height, data, fileVars,
                   colorVars,
                   otherVars>>

\* _write_png(path, width, height, data) on what the packer returned
\* without Pillow
WriteCanvas ==
    /\ pc = "packed"
    /\ ~pillow
    /\ WritePngEffect
    /\ UNCHANGED <<path_exists, ticks_per_beat, parseVars, mergeVars, stripVars,
                   time_den, packVars, pillow, out_dir, png_read, decoded,
                   colorVars,
                   otherVars>>

-----------------------------------------------------------------------------
(* midi_parser.midi_to_frame_list *)

\* lines 28-29: the message types that become frames
FrameTypes ==
    {"note_on", "note_off", "control_change", "program_change", "pitchwheel",
     "set_tempo"}

\* getattr(msg, name, None) for the fields a message type has
ChannelOf(m) ==
    IF m.type \in {"note_on", "note_off", "control_change", "program_change",
                   "pitchwheel"}
    THEN m.channel ELSE None

NoteOf(m) == IF m.type \in {"note_on", "note_off"} THEN m.note ELSE None

VelocityOf(m) == IF m.type \in {"note_on", "note_off"} THEN m.velocity ELSE None

TempoOf(m) == IF m.type = "set_tempo" THEN m.tempo ELSE None

\* lines 30-42: the frame of a message (control, value, program and pitch,
\* which no message drawn here sets apart, are left out)
Frame(m, time_s, tick) ==
    [time_s |-> time_s, tick |-> tick, type |-> m.type,
     channel |-> ChannelOf(m), note |-> NoteOf(m),
     velocity |-> VelocityOf(m), tempo |-> TempoOf(m)]

\* the messages of the streams given to midi_to_frame_list; track_name is a
\* type that becomes no frame
FrameMessages ==
    {Msg(t, d, 0, 60, 100, 0) : t \in {"note_on", "note_off"}, d \in TickDeltas}
    \cup {Msg(t, d, 0, 0, 0, 0) :
            t \in {"control_change", "track_name"}, d \in TickDeltas}
    \cup SetTempos

\* lines 12-18: the existence check, MidiFile(filepath), the initial locals
OpenFrames ==
    /\ pc = "open"
    /\ IF path_exists
       THEN /\ pc' = "frame_loop"
            /\ error' = error
       ELSE /\ pc' = "raised"
            /\ error' = "FileNotFoundError"
    /\ tick_acc' = 0
    /\ frames' = <<>>
    /\ UNCHANGED <<path_exists, ticks_per_beat, parseVars, mergeVars, stripVars,
                   time_den, packVars, fileVars, colorVars, caller, shareVars>>

\* lines 21-42: one iteration of the loop over the merged messages; the
\* whole tick count is converted at the tempo in force before the message
FrameBody(m) ==
    /\ msg' = m
    /\ pos' = pos + 1
    /\ tick_acc' = tick_acc + m.time
    /\ IF ticks_per_beat = 0
       THEN \* tempo * 1e-6 / 0
            /\ pc' = "raised"
            /\ error' = "ZeroDivisionError"
            /\ UNCHANGED <<tempo, frames>>
       ELSE LET time_s == tick2second(tick_acc + m.time, ticks_per_beat, tempo)
            IN  /\ tempo' = IF m.type = "set_tempo" THEN m.tempo ELSE tempo
                /\ frames' = IF m.type \in FrameTypes
                             THEN Append(frames, Frame(m, time_s, tick_acc + m.time))
                             ELSE frames
                /\ error' = error
                \* line 43: after the last message the list is returned
                /\ pc' = IF m.type = "end_of_track" THEN "frames_done"
                         ELSE "frame_loop"

\* the loop takes the next message of the merged stream
FrameStep ==
    /\ pc = "frame_loop"
    /\ \/ \E m \in FrameMessages : pos < MaxMsgs /\ FrameBody(m)
       \/ \E m \in EndOfTracks : FrameBody(m)
    /\ UNCHANGED <<path_exists, ticks_per_beat, current_time, active, spans,
                   mergeVars, stripVars, time_den, packVars, fileVars,
                   colorVars, caller, shareVars>>

-----------------------------------------------------------------------------
(* a caller that runs a stage a second time on the arguments of the first   *)
(* run; neither stage has a parameter for a random source (lines 121-125,   *)
(* 157-161): both draw from the generator of the random module              *)

\* strip = spans_to_color_strip(spans, pixels_per_second, background), twice
RunStripAgain ==
    /\ pc = "strip_done"
    /\ caller.first = None
    /\ caller' = [caller EXCEPT !.first = strip]
    /\ pc' = "strip"
    /\ UNCHANGED <<error, path_exists, ticks_per_beat, parseVars, mergeVars,
                   stripVars, time_den, packVars, fileVars, colorVars,
                   frameVars, shareVars>>

\* color_strip_to_rect_image(list(strip), ratio, noise), twice: each run is
\* given a list equal to the caller's strip
RunPackAgain ==
    /\ pc = "packed"
    /\ caller.first = None
    /\ caller' = [caller EXCEPT !.first = <<width, height, data>>]
    /\ strip' = caller.strip
    /\ pc' = "pack"
    /\ UNCHANGED <<error, path_exists, ticks_per_beat, parseVars, mergeVars,
                   pixels_per_second, background, total_pixels, idx, time_den,
                   packVars, fileVars, colorVars, frameVars, shareVars>>

-----------------------------------------------------------------------------
(* web_app: POST /api/create-share on the ThreadingHTTPServer, one thread   *)
(* per request.  A dict is a function from share ids to entries.  A thread  *)
(* takes a step at each access to a file; read_text, write_text and         *)
(* os.replace are each taken as one step.                                   *)

\* the payloads posted: the three paths given, or one of them missing
Payloads == {"paths", "incomplete"}

\* what a request has been answered: nothing yet, {"ok": True, "id": ...},
\* {"ok": False, ...} with status 400, or no answer because the handler
\* raised
NoReply == [sent |-> FALSE, ok |-> FALSE, id |-> 0]

Created(id) == [sent |-> TRUE, ok |-> TRUE, id |-> id]

Refused == [sent |-> TRUE, ok |-> FALSE, id |-> 0]

\* a request as the server accepts it
Request(payload) ==
    [pc |-> "validate", payload |-> payload, shares |-> NoShares,
     share_id |-> 0, reply |-> NoReply]

\* secrets.token_urlsafe(8), 64 random bits: request r draws a token that no
\* other request draws
token_urlsafe(r) == r

\* line 303: shares[share_id] = {...}
WithShare(shares, id, entry) ==
    [k \in DOMAIN shares \cup {id} |-> IF k = id THEN entry ELSE shares[k]]

\* lines 225-226: shares = _load_shares(); entry = shares.get(share_id, {})
share_lookup(id) ==
    IF id \in DOMAIN shares_file THEN shares_file[id] ELSE "{}"

\* lines 284-299: the paths are required and must resolve inside ROOT
ValidateShare(r) ==
    /\ handler[r].pc = "validate"
    /\ handler' = [handler EXCEPT ![r] =
          IF @.payload = "paths" THEN [@ EXCEPT !.pc = "load"]
          ELSE [@ EXCEPT !.pc = "done", !.reply = Refused]]
    /\ UNCHANGED <<shares_file, shares_tmp>>

\* lines 301-303: the store is read, the token drawn, the entry put into the
\* thread's own dict
LoadShares(r) ==
    /\ handler[r].pc = "load"
    /\ handler' = [handler EXCEPT ![r] =
          [@ EXCEPT !.pc = "write",
                    !.share_id = token_urlsafe(r),
                    !.shares = WithShare(shares_file, token_urlsafe(r),
                                         handler[r].payload)]]
    /\ UNCHANGED <<shares_file, shares_tmp>>

\* line 69: tmp.write_text(json.dumps(data)); every thread writes the same
\* path
WriteTmp(r) ==
    /\ handler[r].pc = "write"
    /\ shares_tmp' = [exists |-> TRUE, data |-> handler[r].shares]
    /\ handler' = [handler EXCEPT ![r] = [@ EXCEPT !.pc = "replace"]]
    /\ UNCHANGED shares_file

\* line 70 and line 306: os.replace(tmp, SHARES_FILE), then the answer; when
\* another thread has moved the file away os.replace raises
\* FileNotFoundError and the request gets no answer
ReplaceShares(r) ==
    /\ handler[r].pc = "replace"
    /\ IF shares_tmp.exists
       THEN /\ shares_file' = shares_tmp.data
            /\ shares_tmp' = NoFile
            /\ handler' = [handler EXCEPT ![r] =
                  [@ EXCEPT !.pc = "done",
                            !.reply = Created(handler[r].share_id)]]
       ELSE /\ handler' = [handler EXCEPT ![r] = [@ EXCEPT !.pc = "done"]]
            /\ UNCHANGED <<shares_file, shares_tmp>>

\* a step of the thread that handles request r
HandleCreateShare(r) ==
    /\ pc = "serve"
    /\ \/ ValidateShare(r)
       \/ LoadShares(r)
       \/ WriteTmp(r)
       \/ ReplaceShares(r)
    /\ UNCHANGED <<pc, error, path_exists, ticks_per_beat, parseVars, mergeVars,
                   stripVars, time_den, packVars, fileVars, colorVars,
                   frameVars, caller>>

ServeShares == \E r \in DOMAIN handler : HandleCreateShare(r)

-----------------------------------------------------------------------------
(* reading the file back: the PNG format of the bytes _write_png writes *)

\* what the decoder returns for bytes that are no such file
NoImage == [ok |-> FALSE, width |-> 0, height |-> 0, pixels |-> <<>>]

NoChunk == [ok |-> FALSE, tag |-> <<>>, payload |-> <<>>, next |-> 0]

NoBytes == [ok |-> FALSE, bytes |-> <<>>]

ReadU32(b, p) == ((b[p] * 256 + b[p + 1]) * 256 + b[p + 2]) * 256 + b[p + 3]

\* the chunk that starts at index p, its CRC checked
ChunkAt(b, p) ==
    IF p + 11 > Len(b) THEN NoChunk
    ELSE IF b[p] # 0 THEN NoChunk
    ELSE LET n == ReadU32(b, p)
         IN  IF p + 11 + n > Len(b) THEN NoChunk
             ELSE IF SubSeq(b, p + 8 + n, p + 11 + n)
                        # Crc32Bytes(SubSeq(b, p + 4, p + 7 + n))
             THEN NoChunk
             ELSE [ok |-> TRUE,
                   tag |-> SubSeq(b, p + 4, p + 7),
                   payload |-> SubSeq(b, p + 8, p + 7 + n),
                   next |-> p + 12 + n]

\* zlib.decompress of a stream whose data are in one stored block
zlib_decompress(z) ==
    IF Len(z) < 11 THEN NoBytes
    ELSE LET n == z[4] + 256 * z[5]
         IN  IF \/ z[1] # 120
                \/ (z[1] * 256 + z[2]) % 31 # 0
                \/ z[3] # 1
                \/ z[6] # 255 - z[4]
                \/ z[7] # 255 - z[5]
                \/ Len(z) # 11 + n
             THEN NoBytes
             ELSE LET raw == SubSeq(z, 8, 7 + n)
                  IN  IF SubSeq(z, 8 + n, 11 + n) # Adler32Bytes(raw)
                      THEN NoBytes
                      ELSE [ok |-> TRUE, bytes |-> raw]

\* the rows of an 8-bit RGB image without their filter byte, which must be 0
Unfilter(raw, w, h) ==
    IF Len(raw) # h * (1 + 3 * w) THEN NoImage
    ELSE IF \E y \in 0..(h - 1) : raw[y * (1 + 3 * w) + 1] # 0 THEN NoImage
    ELSE [ok |-> TRUE, width |-> w, height |-> h,
          pixels |->
            [k \in 1..(w * h) |->
               LET at == ((k - 1) \div w) * (1 + 3 * w) + 1 + 3 * ((k - 1) % w)
               IN  <<raw[at + 1], raw[at + 2], raw[at + 3]>>]]

\* the three chunks _write_png writes, in their order
ChunksOf(b) ==
    LET ihdr == ChunkAt(b, 9)
        idat == IF ihdr.ok THEN ChunkAt(b, ihdr.next) ELSE NoChunk
        iend == IF idat.ok THEN ChunkAt(b, idat.next) ELSE NoChunk
    IN  <<ihdr, idat, iend>>

\* the decoder before it has read anything: the chunks read, the index of
\* the next byte, the inflated data
NoRead == [chunks |-> <<>>, next |-> 0, raw |-> NoBytes]

\* the decoder gives up: the bytes are no such file
DecodeFails ==
    /\ decoded' = NoImage
    /\ pc' = "decoded"
    /\ png_read' = png_read

\* the file _write_png wrote is opened and its signature checked
ReadSignature ==
    /\ pc = "saved"
    /\ ~pillow
    /\ IF Len(out_file) >= 8 /\ SubSeq(out_file, 1, 8) = PngSignature
       THEN /\ png_read' = [chunks |-> <<>>, next |-> 9, raw |-> NoBytes]
            /\ pc' = "chunks"
            /\ decoded' = decoded
       ELSE DecodeFails
    /\ UNCHANGED <<error, path_exists, ticks_per_beat, parseVars, mergeVars,
                   stripVars, time_den, packVars, pillow, out_dir, out_file,
                   colorVars,
                   otherVars>>

\* the next chunk is parsed; after IEND nothing may follow
ReadChunk ==
    /\ pc = "chunks"
    /\ LET c == ChunkAt(out_file, png_read.next)
       IN  IF ~c.ok THEN DecodeFails
           ELSE IF c.tag = TagIEND
           THEN IF c.next = Len(out_file) + 1 /\ c.payload = <<>>
                THEN /\ png_read' = [png_read EXCEPT
                                        !.chunks = Append(@, c),
                                        !.next = c.next]
                     /\ pc' = "inflate"
                     /\ decoded' = decoded
                ELSE DecodeFails
           ELSE /\ png_read' = [png_read EXCEPT
                                   !.chunks = Append(@, c), !.next = c.next]
                /\ UNCHANGED <<pc, decoded>>
    /\ UNCHANGED <<error, path_exists, ticks_per_beat, parseVars, mergeVars,
                   stripVars, time_den, packVars, pillow, out_dir, out_file,
                   colorVars,
                   otherVars>>

\* the chunks are IHDR of an 8-bit RGB image, one IDAT, IEND
ChunksAsWritten(cs) ==
    /\ Len(cs) = 3
    /\ cs[1].tag = TagIHDR
    /\ Len(cs[1].payload) = 13
    /\ SubSeq(cs[1].payload, 9, 13) = <<8, 2, 0, 0, 0>>
    /\ cs[1].payload[1] = 0
    /\ cs[1].payload[5] = 0
    /\ cs[2].tag = TagIDAT
    /\ cs[3].tag = TagIEND

\* the whole decoder as one function of the bytes
png_decode(b) ==
    IF Len(b) < 8 THEN NoImage
    ELSE IF SubSeq(b, 1, 8) # PngSignature THEN NoImage
    ELSE LET c == ChunksOf(b)
         IN  IF ~(c[1].ok /\ c[2].ok /\ c[3].ok) THEN NoImage
             ELSE IF ~ChunksAsWritten(c) THEN NoImage
             ELSE IF c[3].payload # <<>> \/ c[3].next # Len(b) + 1
             THEN NoImage
             ELSE LET raw == zlib_decompress(c[2].payload)
                  IN  IF ~raw.ok THEN NoImage
                      ELSE Unfilter(raw.bytes, ReadU32(c[1].payload, 1),
                                    ReadU32(c[1].payload, 5))

\* the data chunk is inflated
Inflate ==
    /\ pc = "inflate"
    /\ IF ChunksAsWritten(png_read.chunks)
       THEN LET raw == zlib_decompress(png_read.chunks[2].payload)
            IN  IF raw.ok
                THEN /\ png_read' = [png_read EXCEPT !.raw = raw]
                     /\ pc' = "unfilter"
                     /\ decoded' = decoded
                ELSE DecodeFails
       ELSE DecodeFails
    /\ UNCHANGED <<error, path_exists, ticks_per_beat, parseVars, mergeVars,
                   stripVars, time_den, packVars, pillow, out_dir, out_file,
                   colorVars,
                   otherVars>>

\* the filter byte of each row is dropped: the image
StripFilter ==
    /\ pc = "unfilter"
    /\ decoded' = Unfilter(png_read.raw.bytes,
                           ReadU32(png_read.chunks[1].payload, 1),
                           ReadU32(png_read.chunks[1].payload, 5))
    /\ pc' = "decoded"
    /\ UNCHANGED <<error, path_exists, ticks_per_beat, parseVars, mergeVars,
                   stripVars, time_den, packVars, pillow, out_dir, out_file,
                   png_read, colorVars,
                   otherVars>>

\* the span lists drawn: up to MaxSpans spans with times 0..MaxSpanTime
SpanInputs ==
    {sp \in {NoteSpan(n, 0, s, e, 100) :
                n \in Notes, s \in 0..MaxSpanTime, e \in 0..MaxSpanTime} :
        sp.start <= sp.end}

RECURSIVE SpanListsOf(_)
SpanListsOf(n) ==
    IF n = 0 THEN {<<>>}
    ELSE {Append(l, sp) : l \in SpanListsOf(n - 1), sp \in SpanInputs}

SpanLists == UNION {SpanListsOf(n) : n \in 0..MaxSpans}

PixelRates == {0, 1, 2, 3}

Backgrounds == {None, <<10, 20, 30>>}

\* the variables of the rectangle packer before it is called; ratio and noise
\* at their defaults
IdlePack ==
    /\ ratio = <<4, 3>>
    /\ noise = TRUE
    /\ width = 0
    /\ height = 0
    /\ data = <<>>

\* nothing written, nothing decoded
IdleFile ==
    /\ pillow = FALSE
    /\ out_dir = FALSE
    /\ out_file = None
    /\ png_read = NoRead
    /\ decoded = NoImage

\* color_for_note not called on its own
IdleColor ==
    /\ arg_note = 0
    /\ arg_velocity = 0
    /\ color = <<>>

\* the caller has kept nothing
NoCaller == [strip |-> <<>>, first |-> None]

\* midi_to_frame_list not called, no stage run twice, the web server with
\* the empty store _ensure_dirs writes and no request
IdleOther ==
    /\ tick_acc = 0
    /\ frames = <<>>
    /\ caller = NoCaller
    /\ shares_file = NoShares
    /\ shares_tmp = NoFile
    /\ handler = <<>>

\* the strips handed to the packer: one per length, its pixels all different
StripOfLen(n) == [i \in 1..n |-> <<i, 2 * i, 255 - i>>]

StripInputs == {StripOfLen(n) : n \in 0..MaxStrip}

\* aspect ratios: the default, others, and two that are not positive
Ratios == {<<4, 3>>, <<1, 1>>, <<3, 4>>, <<5, 3>>, <<0, 3>>, <<4, -1>>}

Init ==
    /\ pc = "open"
    /\ error = "none"
    /\ path_exists \in BOOLEAN
    /\ ticks_per_beat \in Resolutions
    /\ tracks = <<>>
    /\ merged = <<>>
    /\ tempo = DEFAULT_TEMPO
    /\ current_time = 0
    /\ active = <<>>
    /\ spans = <<>>
    /\ msg = NoMsg
    /\ pos = 0
    /\ pixels_per_second = 0
    /\ background = None
    /\ strip = <<>>
    /\ total_pixels = 0
    /\ idx = 0
    /\ time_den = UnitsPerSecond
    /\ IdlePack
    /\ IdleFile
    /\ IdleColor
    /\ IdleOther

Next ==
    \/ OpenMidi
    \/ ProcessMsg
    \/ CloseHanging

Spec == Init /\ [][Next]_vars

\* the extractor on the files drawn
InitFile ==
    /\ tracks \in FilesUpTo(MaxTracks, MaxFileMsgs)
    /\ pc = "open"
    /\ error = "none"
    /\ path_exists \in BOOLEAN
    /\ ticks_per_beat = 480
    /\ merged = <<>>
    /\ tempo = DEFAULT_TEMPO
    /\ current_time = 0
    /\ active = <<>>
    /\ spans = <<>>
    /\ msg = NoMsg
    /\ pos = 0
    /\ pixels_per_second = 0
    /\ background = None
    /\ strip = <<>>
    /\ total_pixels = 0
    /\ idx = 0
    /\ time_den = UnitsPerSecond
    /\ IdlePack
    /\ IdleFile
    /\ IdleColor
    /\ IdleOther

NextFile ==
    \/ OpenFile
    \/ NextMsg
    \/ CloseHanging

SpecFile == InitFile /\ [][NextFile]_vars

\* the strip builder on the span lists drawn
InitStrip ==
    /\ pc = "strip"
    /\ error = "none"
    /\ path_exists = TRUE
    /\ ticks_per_beat = 480
    /\ tracks = <<>>
    /\ merged = <<>>
    /\ tempo = DEFAULT_TEMPO
    /\ current_time = 0
    /\ active = <<>>
    /\ spans \in SpanLists
    /\ msg = NoMsg
    /\ pos = 0
    /\ pixels_per_second \in PixelRates
    /\ background \in Backgrounds
    /\ strip = <<>>
    /\ total_pixels = 0
    /\ idx = 0
    /\ time_den = StripDen
    /\ IdlePack
    /\ IdleFile
    /\ IdleColor
    /\ IdleOther

NextStrip ==
    \/ StripStart
    \/ StripSample
    \/ StripReturn

SpecStrip == InitStrip /\ [][NextStrip]_vars

\* color_for_note on every pitch and on the velocities -VelocityMargin ..
\* 127 + VelocityMargin
InitColor ==
    /\ pc = "color"
    /\ error = "none"
    /\ path_exists = TRUE
    /\ ticks_per_beat = 480
    /\ tracks = <<>>
    /\ merged = <<>>
    /\ tempo = DEFAULT_TEMPO
    /\ current_time = 0
    /\ active = <<>>
    /\ spans = <<>>
    /\ msg = NoMsg
    /\ pos = 0
    /\ time_den = StripDen
    /\ pixels_per_second = 0
    /\ background = None
    /\ strip = <<>>
    /\ total_pixels = 0
    /\ idx = 0
    /\ IdlePack
    /\ IdleFile
    /\ arg_note \in 0..MidiMax
    /\ arg_velocity \in (0 - VelocityMargin)..(MidiMax + VelocityMargin)
    /\ color = <<>>
    /\ IdleOther

NextColor == ColorCall

SpecColor == InitColor /\ [][NextColor]_vars

\* the values of pixels_per_second midi_to_image is called with
ImageRates == {0, 1}

\* midi_to_image on one-track files, with and without Pillow
InitImage ==
    /\ tracks \in FilesUpTo(1, MaxFileMsgs)
    /\ pc = "open"
    /\ error = "none"
    /\ path_exists \in BOOLEAN
    /\ ticks_per_beat = 480
    /\ merged = <<>>
    /\ tempo = DEFAULT_TEMPO
    /\ current_time = 0
    /\ active = <<>>
    /\ spans = <<>>
    /\ msg = NoMsg
    /\ pos = 0
    /\ time_den = UnitsPerSecond
    /\ pixels_per_second \in ImageRates
    /\ background = None
    /\ strip = <<>>
    /\ total_pixels = 0
    /\ idx = 0
    /\ IdlePack
    /\ pillow \in BOOLEAN
    /\ out_dir = FALSE
    /\ out_file = None
    /\ png_read = NoRead
    /\ decoded = NoImage
    /\ IdleColor
    /\ IdleOther

NextImage ==
    \/ OpenFile
    \/ NextMsg
    \/ CloseHanging
    \/ BuildStrip
    \/ StripStart
    \/ StripSample
    \/ StripReturn
    \/ PackStrip
    \/ Pack
    \/ SaveImage

SpecImage == InitImage /\ [][NextImage]_vars

\* the messages of the streams drawn whole: two keys struck, released by
\* note-off and by note-on with velocity 0, and the events that are no notes
StreamMessages ==
    {Msg("note_on", 480, c, 60, v, 0) : c \in Channels, v \in Velocities}
    \cup {Msg("note_off", 480, c, 60, 64, 0) : c \in Channels}
    \cup {Msg(t, 480, 0, 0, 0, 0) :
            t \in {"control_change", "program_change", "pitchwheel"}}
    \cup {Msg("set_tempo", 480, 0, 0, 0, 250000)}

\* a merged stream: the messages b and the end_of_track that closes them
StreamOf(b) == Append(b, Msg("end_of_track", 0, 0, 0, 0, 0))

\* the extractor on a merged stream that is known from the start: up to
\* MaxMsgs messages
InitStream ==
    /\ \E k \in 0..MaxMsgs :
          \E b \in [1..k -> StreamMessages] : merged = StreamOf(b)
    /\ pc = "open"
    /\ error = "none"
    /\ path_exists = TRUE
    /\ ticks_per_beat = 480
    /\ tracks = <<>>
    /\ tempo = DEFAULT_TEMPO
    /\ current_time = 0
    /\ active = <<>>
    /\ spans = <<>>
    /\ msg = NoMsg
    /\ pos = 0
    /\ pixels_per_second = 0
    /\ background = None
    /\ strip = <<>>
    /\ total_pixels = 0
    /\ idx = 0
    /\ time_den = UnitsPerSecond
    /\ IdlePack
    /\ IdleFile
    /\ IdleColor
    /\ IdleOther

NextStream ==
    \/ OpenMidi
    \/ NextMsg
    \/ CloseHanging

SpecStream == InitStream /\ [][NextStream]_vars

\* the extractor on streams of notes that are struck again while they sound
NextRetrigger ==
    \/ OpenMidi
    \/ ProcessNote
    \/ CloseHanging

SpecRetrigger == Init /\ [][NextRetrigger]_vars

\* spans of four pitch classes (C, C#, E, A#) at the least and the greatest
\* velocity, sounding from time 0 or 1 to time 2
CanvasSpans ==
    {NoteSpan(n, 0, st, 2, v) : n \in {60, 61, 64, 70}, st \in {0, 1},
                                v \in {0, MidiMax}}

\* the lists of up to two of them
CanvasSpanLists ==
    {<<>>} \cup {<<a>> : a \in CanvasSpans}
           \cup {<<a, b>> : a \in CanvasSpans, b \in CanvasSpans}

\* backgrounds: none, and pixels with the least and the greatest channel
CanvasBackgrounds == {None, <<0, 128, 255>>}

\* strip builder, packer and _write_png in a row
InitCanvas ==
    /\ pc = "strip"
    /\ error = "none"
    /\ path_exists = TRUE
    /\ ticks_per_beat = 480
    /\ tracks = <<>>
    /\ merged = <<>>
    /\ tempo = DEFAULT_TEMPO
    /\ current_time = 0
    /\ active = <<>>
    /\ spans \in CanvasSpanLists
    /\ msg = NoMsg
    /\ pos = 0
    /\ pixels_per_second \in {1, 2}
    /\ background \in CanvasBackgrounds
    /\ strip = <<>>
    /\ total_pixels = 0
    /\ idx = 0
    /\ time_den = StripDen
    /\ IdlePack
    /\ IdleFile
    /\ IdleColor
    /\ IdleOther

NextCanvas ==
    \/ StripStart
    \/ StripSample
    \/ StripReturn
    \/ PackAny
    \/ Pack
    \/ WriteCanvas

SpecCanvas == InitCanvas /\ [][NextCanvas]_vars

\* midi_to_frame_list fed any next message
NextFrames ==
    \/ OpenFrames
    \/ FrameStep

SpecFrames == Init /\ [][NextFrames]_vars

\* the span lists of the runs that are repeated: none, a note after a
\* silence, a note from the start, two notes in a row
TwiceSpanLists ==
    {<<>>,
     <<NoteSpan(60, 0, 1, 2, 100)>>,
     <<NoteSpan(60, 0, 0, 2, 100)>>,
     <<NoteSpan(60, 0, 0, 1, 100), NoteSpan(64, 0, 1, 2, 100)>>}

\* either stage run twice: the strip builder on the spans drawn, or the
\* packer on a strip of up to three pixels
InitTwice ==
    /\ error = "none"
    /\ path_exists = TRUE
    /\ ticks_per_beat = 480
    /\ tracks = <<>>
    /\ merged = <<>>
    /\ tempo = DEFAULT_TEMPO
    /\ current_time = 0
    /\ active = <<>>
    /\ msg = NoMsg
    /\ pos = 0
    /\ total_pixels = 0
    /\ idx = 0
    /\ time_den = StripDen
    /\ width = 0
    /\ height = 0
    /\ data = <<>>
    /\ \/ /\ pc = "strip"
          /\ spans \in TwiceSpanLists
          /\ pixels_per_second \in {1, 2}
          /\ background \in Backgrounds
          /\ strip = <<>>
          /\ ratio = <<4, 3>>
          /\ noise = TRUE
       \/ /\ pc = "pack"
          /\ spans = <<>>
          /\ pixels_per_second = 0
          /\ background = None
          /\ strip \in {StripOfLen(n) : n \in 0..3}
          /\ ratio \in CanvasRatios
          /\ noise \in BOOLEAN
    /\ IdleFile
    /\ IdleColor
    /\ tick_acc = 0
    /\ frames = <<>>
    /\ caller = [strip |-> strip, first |-> None]
    /\ shares_file = NoShares
    /\ shares_tmp = NoFile
    /\ handler = <<>>

NextTwice ==
    \/ StripStart
    \/ StripSample
    \/ StripReturn
    \/ RunStripAgain
    \/ Pack
    \/ RunPackAgain

SpecTwice == InitTwice /\ [][NextTwice]_vars

\* the server with MaxRequests requests accepted and the empty store
InitShares ==
    /\ pc = "serve"
    /\ error = "none"
    /\ path_exists = TRUE
    /\ ticks_per_beat = 480
    /\ tracks = <<>>
    /\ merged = <<>>
    /\ tempo = DEFAULT_TEMPO
    /\ current_time = 0
    /\ active = <<>>
    /\ spans = <<>>
    /\ msg = NoMsg
    /\ pos = 0
    /\ pixels_per_second = 0
    /\ background = None
    /\ strip = <<>>
    /\ total_pixels = 0
    /\ idx = 0
    /\ time_den = StripDen
    /\ IdlePack
    /\ IdleFile
    /\ IdleColor
    /\ tick_acc = 0
    /\ frames = <<>>
    /\ caller = NoCaller
    /\ shares_file = NoShares
    /\ shares_tmp = NoFile
    /\ handler \in [1..MaxRequests -> {Request(p) : p \in Payloads}]

NextShares == ServeShares

SpecShares == InitShares /\ [][NextShares]_vars

\* the pixels of the buffers given to _write_png
PngPixels == {<<0, 0, 0>>, <<255, 255, 255>>, <<1, 128, 254>>}

\* the buffers of n pixels: every choice of the first MaxFreePixels pixels,
\* then pixels that tell their index
PngBuffers(n) ==
    LET free == Min2(n, MaxFreePixels)
    IN  {[k \in 1..n |-> IF k <= free THEN f[k] ELSE <<k, 255 - k, 7>>] :
            f \in [1..free -> PngPixels]}

\* _write_png on the widths, heights and buffers drawn, then the decoder
InitPng ==
    /\ pc = "write"
    /\ error = "none"
    /\ path_exists = TRUE
    /\ ticks_per_beat = 480
    /\ tracks = <<>>
    /\ merged = <<>>
    /\ tempo = DEFAULT_TEMPO
    /\ current_time = 0
    /\ active = <<>>
    /\ spans = <<>>
    /\ msg = NoMsg
    /\ pos = 0
    /\ time_den = StripDen
    /\ pixels_per_second = 0
    /\ background = None
    /\ strip = <<>>
    /\ total_pixels = 0
    /\ idx = 0
    /\ ratio = <<4, 3>>
    /\ noise = TRUE
    /\ width \in 1..MaxSide
    /\ height \in 1..MaxSide
    /\ data \in PngBuffers(width * height)
    /\ IdleFile
    /\ IdleColor
    /\ IdleOther

NextPng ==
    \/ WritePng
    \/ ReadSignature
    \/ ReadChunk
    \/ Inflate
    \/ StripFilter

SpecPng == InitPng /\ [][NextPng]_vars

\* the rectangle packer on the strips, ratios and noise options drawn
InitPack ==
    /\ pc = "pack"
    /\ error = "none"
    /\ path_exists = TRUE
    /\ ticks_per_beat = 480
    /\ tracks = <<>>
    /\ merged = <<>>
    /\ tempo = DEFAULT_TEMPO
    /\ current_time = 0
    /\ active = <<>>
    /\ spans = <<>>
    /\ msg = NoMsg
    /\ pos = 0
    /\ time_den = StripDen
    /\ pixels_per_second = 0
    /\ background = None
    /\ strip \in StripInputs
    /\ total_pixels = 0
    /\ idx = 0
    /\ ratio \in Ratios
    /\ noise \in BOOLEAN
    /\ width = 0
    /\ height = 0
    /\ data = <<>>
    /\ IdleFile
    /\ IdleColor
    /\ IdleOther

NextPack == Pack

SpecPack == InitPack /\ [][NextPack]_vars


-----------------------------------------------------------------------------
(* Properties of the span extractor (Spec) *)

\* a step of the extractor loop that took a message and did not raise
LoopStep ==
    /\ pc = "loop"
    /\ pos' = pos + 1
    /\ pc' \in {"loop", "flush"}

\* C1: with non-negative deltas and a positive ticks_per_beat, every span the
\* extractor has emitted, at any point of any stream, has end >= start and
\* its velocity and pitch in 0..127.
C1_SpansWellFormed ==
    ticks_per_beat > 0 =>
        \A k \in 1..Len(spans) :
            /\ spans[k].end >= spans[k].start
            /\ spans[k].velocity \in 0..MidiMax
            /\ spans[k].note \in 0..MidiMax

\* a returned list with a span of positive and a span of zero duration, after
\* a tempo change
C1_Witness ==
    /\ pc = "done"
    /\ ticks_per_beat > 0
    /\ tempo # DEFAULT_TEMPO
    /\ \E k \in 1..Len(spans) : spans[k].end > spans[k].start
    /\ \E k \in 1..Len(spans) : spans[k].end = spans[k].start

\* the case of C2: the message taken closes the note the message before it
\* opened
C2_Case ==
    /\ LoopStep
    /\ ticks_per_beat > 0
    /\ IsNoteOn(msg)
    /\ IsNoteOff(msg')
    /\ KeyOf(msg') = KeyOf(msg)

C2_Effect ==
    /\ Len(spans') = Len(spans) + 1
    /\ SubSeq(spans', 1, Len(spans)) = spans
    /\ LET s == spans'[Len(spans')]
       IN  /\ s.end - s.start = msg'.time * tempo
           /\ <<s.channel, s.note>> = KeyOf(msg')

\* C2: a note-on directly followed by the note-off (or zero-velocity note-on)
\* of the same (channel, pitch), d ticks later at tempo T, adds exactly one
\* span, of that key, whose duration is d * T time units, that is
\* d * (T / 10^6) / ticks_per_beat seconds, whatever the time of the note-on.
C2_DurationAtConstantTempo == [][C2_Case => C2_Effect]_vars

\* the second message closed the note the first one opened 480 ticks into the
\* stream
C2_Witness ==
    /\ pc = "loop"
    /\ ticks_per_beat > 0
    /\ pos = 2
    /\ IsNoteOff(msg)
    /\ msg.time = 480
    /\ Len(spans) = 1
    /\ spans[1].start = 480 * DEFAULT_TEMPO
    /\ spans[1].end - spans[1].start = 480 * DEFAULT_TEMPO

\* the step that closes the hanging notes adds one span per key of the table
C4_Flush ==
    (pc = "flush" /\ pc' = "done") =>
        /\ Len(spans') = Len(spans) + Len(active)
        /\ SubSeq(spans', 1, Len(spans)) = spans
        /\ \A key \in DictKeys(active) :
             LET added == {k \in (Len(spans) + 1)..Len(spans') :
                              <<spans'[k].channel, spans'[k].note>> = key}
             IN  /\ Cardinality(added) = 1
                 /\ \A k \in added :
                      /\ spans'[k].start = DictGet(active, key).start
                      /\ spans'[k].velocity = DictGet(active, key).vel
                      /\ spans'[k].end = current_time

\* an entry of the table is written by a note-on of its key and by nothing else
C4_LastNoteOn ==
    LoopStep =>
        \A key \in DictKeys(active') :
            IF IsNoteOn(msg') /\ KeyOf(msg') = key
            THEN /\ DictGet(active', key).start = current_time'
                 /\ DictGet(active', key).vel = msg'.velocity
            ELSE /\ key \in DictKeys(active)
                 /\ DictGet(active', key) = DictGet(active, key)

\* C4: the step that closes the hanging notes adds, after the spans emitted
\* so far, exactly one span per key still in the active-note table, with the
\* start and velocity stored for the key and the stream's final time as end;
\* and what is stored for a key is the time and velocity of its last note-on.
C4_HangingNotesClosedAtStreamEnd == [][C4_Flush /\ C4_LastNoteOn]_vars

\* two notes left hanging: one opened before the stream's last instant, one at
\* it (duration 0)
C4_Witness ==
    /\ pc = "done"
    /\ ticks_per_beat > 0
    /\ pos = 3
    /\ Len(spans) = 2
    /\ Len(active) = 2
    /\ spans[1].end > spans[1].start
    /\ spans[2].end = spans[2].start
    /\ spans[2].end = current_time

\* C5 as stated: when the extractor returns, the active-note table is empty.
C5_ActiveEmptyAtReturn ==
    pc = "done" => active = <<>>

\* C5 as amended: a matching note-off removes its key from the active-note
\* table; when the extractor returns, every entry still in the table has been
\* flushed into one span, the last Len(active) spans in the table's order,
\* ending at the final stream time. The flush removes no entry.
C5_ActiveFlushedAtReturn ==
    /\ (pc \in {"loop", "flush", "done"} /\ IsNoteOff(msg)) =>
            KeyOf(msg) \notin DictKeys(active)
    /\ pc = "done" =>
            /\ Len(spans) >= Len(active)
            /\ \A k \in 1..Len(active) :
                 spans[Len(spans) - Len(active) + k] =
                    NoteSpan(active[k].key[2], active[k].key[1],
                             active[k].start, current_time, active[k].vel)

\* returned with one note closed by its note-off and one flushed at the end
C5_Witness ==
    /\ pc = "done"
    /\ Len(active) = 1
    /\ Len(spans) = 2
    /\ <<spans[1].channel, spans[1].note>> \notin DictKeys(active)

C6_Effect ==
    /\ current_time' = current_time + msg'.time * tempo
    /\ SubSeq(spans', 1, Len(spans)) = spans
    /\ IF msg'.type = "set_tempo"
       THEN /\ tempo' = msg'.tempo
            /\ spans' = spans
            /\ active' = active
       ELSE tempo' = tempo

\* C6: every message advances the stream time by its delta converted at the
\* tempo in effect before it, the tempo-change message included; a tempo
\* change sets the tempo for the deltas after it, adds no span and leaves the
\* times already recorded as they are; no other message changes the tempo.
C6_TempoChangeAffectsLaterTicksOnly ==
    [][(LoopStep /\ ticks_per_beat > 0) => C6_Effect]_vars

\* a tempo change 480 ticks into the stream, then a message 480 ticks later:
\* the first delta at the default tempo, the second at the new one
C6_Witness ==
    /\ pc = "loop"
    /\ ticks_per_beat > 0
    /\ pos = 2
    /\ tempo = 250000
    /\ msg.type # "set_tempo"
    /\ current_time = 480 * DEFAULT_TEMPO + 480 * 250000

\* C8 as stated: with ticks_per_beat <= 0 the extractor never returns a span
\* list.
C8_NonPositiveResolutionFails ==
    ticks_per_beat <= 0 => pc # "done"

-----------------------------------------------------------------------------
(* Properties of the merge and of the extractor on a file (SpecFile) *)

\* the absolute tick of message k of a track: the sum of the deltas up to it
RECURSIVE TickSum(_, _)
TickSum(track, k) ==
    IF k = 0 THEN 0 ELSE track[k].time + TickSum(track, k - 1)

\* the absolute tick, in its own track, of the message that merged[k] was
\* made from
SrcTick(k) == TickSum(tracks[merged[k].src[1]], merged[k].src[2])

\* the latest end of a track
StreamEndTick ==
    CHOOSE e \in {TickSum(tracks[t], Len(tracks[t])) : t \in 1..Len(tracks)} :
        \A t \in 1..Len(tracks) : TickSum(tracks[t], Len(tracks[t])) <= e

\* original sequence order: track by track, each in its own order
SrcBefore(a, b) == a[1] < b[1] \/ (a[1] = b[1] /\ a[2] < b[2])

\* C7: the merged stream holds every message of every track (the tracks'
\* end_of_track aside) once, ordered by absolute tick, messages of equal
\* tick in their original sequence order; the delta of each is its absolute
\* tick minus that of the message before it; one end_of_track closes the
\* stream, at the latest end of a track.
C7_MergedOrder ==
    merged # <<>> =>
        LET n == Len(merged)
            Prev(k) == IF k = 1 THEN 0 ELSE SrcTick(k - 1)
        IN  /\ merged[n].type = "end_of_track"
            /\ merged[n].time = StreamEndTick - Prev(n)
            /\ \A k \in 1..(n - 1) :
                 LET src == merged[k].src
                 IN  /\ src[1] \in 1..Len(tracks)
                     /\ src[2] \in 1..Len(tracks[src[1]])
                     /\ merged[k].type # "end_of_track"
                     /\ [Untag(merged[k]) EXCEPT !.time = 0]
                           = [tracks[src[1]][src[2]] EXCEPT !.time = 0]
                     /\ merged[k].time = SrcTick(k) - Prev(k)
            /\ \A k \in 1..(n - 1) : \A l \in (k + 1)..(n - 1) :
                 /\ SrcTick(k) <= SrcTick(l)
                 /\ SrcTick(k) = SrcTick(l)
                       => SrcBefore(merged[k].src, merged[l].src)
            /\ \A t \in 1..Len(tracks) : \A j \in 1..Len(tracks[t]) :
                 tracks[t][j].type # "end_of_track"
                    => \E k \in 1..(n - 1) : merged[k].src = <<t, j>>

\* two tracks merged: a message of the second track ahead of one of the
\* first, and two messages of equal tick from different tracks
C7_Witness ==
    /\ merged # <<>>
    /\ Len(tracks) = 2
    /\ \E k \in 1..(Len(merged) - 2) :
         /\ merged[k].src[1] = 2
         /\ merged[k + 1].src[1] = 1
         /\ SrcTick(k) < SrcTick(k + 1)
    /\ \E k \in 1..(Len(merged) - 2) :
         /\ merged[k].src[1] # merged[k + 1].src[1]
         /\ SrcTick(k) = SrcTick(k + 1)

\* scenario A: one track, a note-on at tick 0 and its note-off at tick 480,
\* 480 ticks per beat, the default tempo
ScenarioA ==
    /\ tracks = << <<Msg("note_on", 0, 0, 60, 100, 0),
                     Msg("note_off", 480, 0, 60, 64, 0),
                     Msg("end_of_track", 0, 0, 0, 0, 0)>> >>
    /\ ticks_per_beat = 480

\* C3 as stated: scenario A returns exactly one span, from 0.0 s to 1.0 s.
C3_ScenarioAEndsAtOneSecond ==
    (pc = "done" /\ ScenarioA) =>
        spans = <<NoteSpan(60, 0, 0, UnitsPerSecond, 100)>>

\* C3 as amended: scenario A returns exactly one span, from 0.0 s to 0.5 s
\* (480 ticks are one beat, and a beat lasts 500000 microseconds).
C3_ScenarioAEndsAtHalfSecond ==
    (pc = "done" /\ ScenarioA) =>
        /\ Len(spans) = 1
        /\ spans[1].note = 60 /\ spans[1].channel = 0
        /\ spans[1].velocity = 100
        /\ spans[1].start = 0
        /\ 2 * spans[1].end = UnitsPerSecond

C3_Witness ==
    pc = "done" /\ ScenarioA

-----------------------------------------------------------------------------
(* Properties of the strip builder (SpecStrip) *)

\* C9 as stated: an empty span list makes the strip builder raise
\* EmptySpanSet; it never returns.
C9_EmptySpansRaise ==
    (spans = <<>> /\ pc # "strip") =>
        (pc = "raised" /\ error = "EmptySpanSet")

\* the spans active at sample i: start <= i / pixels_per_second < end
C10_Active(i) ==
    {k \in 1..Len(spans) :
        /\ spans[k].start * pixels_per_second <= i * StripDen
        /\ i * StripDen < spans[k].end * pixels_per_second}

RECURSIVE C10_Sum(_, _)
C10_Sum(S, c) ==
    IF S = {} THEN 0
    ELSE LET k == CHOOSE x \in S : TRUE
         IN  color_for_note(spans[k].note, spans[k].velocity)[c]
                + C10_Sum(S \ {k}, c)

\* C10: for a non-empty span list and pixels_per_second > 0 the strip
\* returned has n = max(1, ceil(E * pixels_per_second)) samples, E the
\* latest end of a span (n - 1 < E * pixels_per_second <= n, or n = 1), and
\* sample i is taken at time i / pixels_per_second: it is the average colour
\* of the spans active then, a filler pixel when there is none.
C10_StripLength ==
    (pc = "strip_done" /\ spans # <<>> /\ pixels_per_second > 0) =>
        LET n == Len(strip)
            E == CHOOSE e \in {spans[k].end : k \in 1..Len(spans)} :
                    \A k \in 1..Len(spans) : spans[k].end <= e
            x == E * pixels_per_second
        IN  /\ n >= 1
            /\ x <= n * StripDen
            /\ n > 1 => (n - 1) * StripDen < x
            /\ \A i \in 0..(n - 1) :
                 LET A == C10_Active(i)
                 IN  IF A = {}
                     THEN IF background = None
                          THEN \A c \in 1..3 : strip[i + 1][c] \in 0..255
                          ELSE strip[i + 1] = background
                     ELSE \A c \in 1..3 :
                            strip[i + 1][c] = C10_Sum(A, c) \div Cardinality(A)

\* one span ending at 0.5 s sampled 3 times a second: ceil(1.5) = 2 samples
C10_Witness ==
    /\ pc = "strip_done"
    /\ pixels_per_second = 3
    /\ Len(spans) = 1
    /\ spans[1].start = 0
    /\ spans[1].end * 2 = StripDen
    /\ Len(strip) = 2

\* the two spans are pitch classes C and E at velocity 100 over one interval
C11_OverlapCE ==
    /\ Len(spans) = 2
    /\ {spans[1].note % 12, spans[2].note % 12} = {0, 4}
    /\ spans[1].velocity = 100 /\ spans[2].velocity = 100
    /\ spans[1].start = spans[2].start /\ spans[1].end = spans[2].end

\* C11: at every sample built so far where m >= 1 spans are active, each
\* channel p of the pixel is the floor of the channel's sum S of
\* color_for_note over the active spans divided by m (p * m <= S <
\* (p + 1) * m); and for two spans of pitch classes C and E at velocity 100
\* over the same interval every sample of the interval is (198, 163, 21),
\* the integer average of (222, 186, 8) and (175, 141, 34).
C11_PixelIsIntegerAverage ==
    pc \in {"strip_loop", "strip_done"} =>
        \A i \in 0..(Len(strip) - 1) :
            LET A == C10_Active(i)
                m == Cardinality(A)
            IN  m >= 1 =>
                  /\ \A c \in 1..3 :
                        /\ strip[i + 1][c] * m <= C10_Sum(A, c)
                        /\ C10_Sum(A, c) < (strip[i + 1][c] + 1) * m
                  /\ (C11_OverlapCE /\ m = 2) =>
                        strip[i + 1] = <<198, 163, 21>>

\* a strip returned for a C and an E over the same interval of 1 s, both of
\* its samples being the average
C11_Witness ==
    /\ pc = "strip_done"
    /\ C11_OverlapCE
    /\ spans[1].start = 0
    /\ spans[1].end = StripDen
    /\ pixels_per_second = 2
    /\ strip = <<(<<198, 163, 21>>), (<<198, 163, 21>>)>>

\* the spans k with spans[k].start <= i / pixels_per_second < spans[k].end
C12_HalfOpen(i) ==
    {k \in 1..Len(spans) :
        /\ spans[k].start * pixels_per_second <= i * time_den
        /\ spans[k].end * pixels_per_second > i * time_den}

\* C12: a span counts at sample time t exactly when start <= t < end.  With
\* a fixed background colour, a sample is the background exactly when no
\* span has start <= t < end, and when exactly one span has, the sample is
\* that span's colour alone: a span whose end is t, and a span of duration
\* 0, add nothing to it.
C12_ActiveIsHalfOpen ==
    (pc \in {"strip_loop", "strip_done"} /\ background # None) =>
        \A i \in 0..(Len(strip) - 1) :
            LET H == C12_HalfOpen(i)
            IN  /\ (strip[i + 1] = background) <=> (H = {})
                /\ \A k \in H :
                      H = {k} =>
                        strip[i + 1] =
                          color_for_note(spans[k].note, spans[k].velocity)

\* a C over [0, 0.5 s) then an E over [0.5 s, 1 s), sampled at 0 and at
\* 0.5 s: the sample at 0.5 s, the end of the C and the start of the E, is
\* the colour of the E alone
C12_Witness ==
    /\ pc = "strip_done"
    /\ background # None
    /\ pixels_per_second = 2
    /\ Len(spans) = 2
    /\ spans[1].note = 60 /\ spans[1].start = 0
    /\ spans[1].end * 2 = StripDen
    /\ spans[2].note = 64 /\ spans[2].start = spans[1].end
    /\ spans[2].end = StripDen
    /\ strip = <<(<<222, 186, 8>>), (<<175, 141, 34>>)>>

-----------------------------------------------------------------------------
(* Properties of the rectangle packer (SpecPack) *)

\* a call of the packer that returns; strip is the list on entry, strip' the
\* list after the call
PackReturns ==
    /\ pc = "pack"
    /\ pc' = "packed"

\* C13: a call of the packer that returns, on a non-empty strip and a ratio
\* of positive integers, sets width and height with
\* width * height >= the length of the strip on entry.
C13_RectangleHoldsStrip ==
    [][PackReturns => width' * height' >= Len(strip)]_vars

\* 13 pixels packed 4:3 into 6 x 4
C13_Witness ==
    /\ pc = "packed"
    /\ ratio = <<4, 3>>
    /\ width = 6 /\ height = 4
    /\ SubSeq(strip, 1, 13) = StripOfLen(13)
    /\ strip[14] \in NoisePixels \cup {<<0, 0, 0>>}

\* C14 as stated: a call of the packer that returns adds fewer than
\* width + height padding pixels: width * height - len(strip on entry) <
\* width + height.
C14_PaddingBelowPerimeterHalf ==
    [][PackReturns =>
         width' * height' - Len(strip) < width' + height']_vars

\* C15: the buffer a call of the packer returns has exactly width * height
\* pixels; pixel (x, y) of the rectangle, at index y * width + x, is the
\* pixel of that index of the strip on entry as far as the strip goes, and
\* the width * height - len(strip) pixels after it are padding, (0, 0, 0)
\* each when noise is false.
C15_BufferIsStripThenPadding ==
    [][PackReturns =>
         /\ Len(data') = width' * height'
         /\ \A y \in 0..(height' - 1) : \A x \in 0..(width' - 1) :
              LET k == y * width' + x
              IN  IF k < Len(strip)
                  THEN data'[k + 1] = strip[k + 1]
                  ELSE ~noise => data'[k + 1] = <<0, 0, 0>>]_vars

\* 13 pixels packed 4:3 without noise: 6 x 4, the strip then 11 black pixels
C15_Witness ==
    /\ pc = "packed"
    /\ ~noise
    /\ width = 6 /\ height = 4
    /\ data = StripOfLen(13) \o [k \in 1..11 |-> <<0, 0, 0>>]

\* C16: the packer called with an empty strip, or with a ratio that has a
\* component <= 0, raises ValueError and sets no width, height or buffer:
\* it never returns an image, and never a 0 x 0 one.
C16_BadInputRaises ==
    (pc # "pack" /\ (strip = <<>> \/ ratio[1] <= 0 \/ ratio[2] <= 0)) =>
        /\ pc = "raised"
        /\ error = "ValueError"
        /\ width = 0 /\ height = 0 /\ data = <<>>

\* a strip of 13 pixels refused for the ratio 4:-1
C16_Witness ==
    /\ pc = "raised"
    /\ error = "ValueError"
    /\ Len(strip) = 13
    /\ ratio = <<4, -1>>
    /\ data = <<>>

-----------------------------------------------------------------------------
(* Properties of color_for_note (SpecColor) *)

\* C18: for every pitch and velocity in 0..127 every call of color_for_note
\* returns a triple of integers in 0..255, and a second call with the same
\* arguments returns the triple the first one returned.
C18_TotalAndDeterministic ==
    (pc = "color" /\ arg_velocity \in 0..MidiMax) =>
        /\ \A k \in 1..Len(color) :
              /\ DOMAIN color[k] = 1..3
              /\ \A c \in 1..3 : color[k][c] \in 0..255
        /\ \A j \in 1..Len(color) : \A k \in 1..Len(color) :
              color[j] = color[k]

\* A4 (pitch 69) at velocity 127 asked twice: dark red both times
C18_Witness ==
    /\ pc = "color"
    /\ arg_note = 69
    /\ arg_velocity = 127
    /\ color = <<(<<139, 0, 0>>), (<<139, 0, 0>>)>>

\* the two lookup tables, by pitch class
C19_Accidental ==
    [k \in {1, 3, 6, 8, 10} |->
        CASE k = 1  -> <<255, 0, 255>>
          [] k = 3  -> <<153, 50, 204>>
          [] k = 6  -> <<180, 255, 0>>
          [] k = 8  -> <<255, 87, 34>>
          [] k = 10 -> <<0, 255, 255>>]

C19_Natural ==
    [k \in {0, 2, 4, 5, 7, 9, 11} |->
        CASE k = 0  -> <<255, 214, 10>>
          [] k = 2  -> <<46, 204, 113>>
          [] k = 4  -> <<201, 162, 39>>
          [] k = 5  -> <<31, 58, 147>>
          [] k = 7  -> <<93, 173, 226>>
          [] k = 9  -> <<139, 0, 0>>
          [] k = 11 -> <<44, 62, 80>>]

\* C19: each channel r of the colour returned is floor(base * (0.4 + 0.6 *
\* v / 127)), v the velocity clamped to 0..127 and base the table colour of
\* pitch mod 12 (1270 * r <= base * (508 + 6 * v) < 1270 * (r + 1)), and
\* at most 255; so velocity >= 127 returns the base colour and velocity <= 0
\* returns floor(0.4 * base), 5 * r <= 2 * base < 5 * (r + 1).
C19_BrightnessFormula ==
    pc = "color" =>
        \A k \in 1..Len(color) : \A c \in 1..3 :
            LET class == arg_note % 12
                base == IF class \in DOMAIN C19_Accidental
                        THEN C19_Accidental[class][c]
                        ELSE C19_Natural[class][c]
                v == IF arg_velocity < 0 THEN 0
                     ELSE IF arg_velocity > 127 THEN 127 ELSE arg_velocity
                r == color[k][c]
            IN  /\ 1270 * r <= base * (508 + 6 * v)
                /\ base * (508 + 6 * v) < 1270 * (r + 1)
                /\ r <= 255
                /\ arg_velocity >= 127 => r = base
                /\ arg_velocity <= 0 =>
                      (5 * r <= 2 * base /\ 2 * base < 5 * (r + 1))

\* C#4 (pitch 61) at a velocity below 0: floor(0.4 * (255, 0, 255))
C19_Witness ==
    /\ pc = "color"
    /\ arg_note = 61
    /\ arg_velocity < 0
    /\ color = <<(<<102, 0, 102>>)>>

\* C28 as stated: when a call of the packer returns or raises, the list the
\* caller passed as strip has the length and the contents it had before the
\* call.
C28_CallerStripUnchanged ==
    [][(pc = "pack" /\ pc' \in {"packed", "raised"}) => strip' = strip]_vars

-----------------------------------------------------------------------------
(* Properties of the note-on / note-off branches (SpecRetrigger, Spec) *)

\* the loop takes a note-on with velocity > 0 whose key is sounding
C22_Case ==
    /\ LoopStep
    /\ IsNoteOn(msg')
    /\ KeyOf(msg') \in DictKeys(active)

\* no span, a new start and velocity for the key, the other keys as before
C22_Overwrite ==
    /\ spans' = spans
    /\ DictKeys(active') = DictKeys(active)
    /\ Len(active') = Len(active)
    /\ DictGet(active', KeyOf(msg')).start = current_time'
    /\ DictGet(active', KeyOf(msg')).vel = msg'.velocity
    /\ \A k \in DictKeys(active) \ {KeyOf(msg')} :
          DictGet(active', k) = DictGet(active, k)

\* a span added by a step starts at the start stored for its key and has
\* the velocity stored for it
C22_EmittedFromStored ==
    \A j \in (Len(spans) + 1)..Len(spans') :
        LET k == <<spans'[j].channel, spans'[j].note>>
        IN  /\ k \in DictKeys(active)
            /\ spans'[j].start = DictGet(active, k).start
            /\ spans'[j].velocity = DictGet(active, k).vel

\* C22: a note-on with velocity > 0 for a key that is sounding adds no span
\* and replaces the start time and the velocity stored for the key by its
\* own, leaving the other keys' entries alone; and every span that is added
\* later has the start and the velocity stored for its key, so it starts at
\* the most recent note-on of the key and carries its velocity.
C22_RetriggerOverwrites ==
    [][(C22_Case => C22_Overwrite) /\ C22_EmittedFromStored]_vars

\* three messages, as in: key (0, 60) struck at velocity 100, struck again
\* 480 ticks later at velocity 64, released 480 ticks after that; the one
\* span runs from the second note-on and has its velocity
C22_Witness ==
    /\ pc = "loop"
    /\ ticks_per_beat > 0
    /\ pos = 3
    /\ IsNoteOff(msg)
    /\ spans = <<NoteSpan(60, 0, 480 * DEFAULT_TEMPO, 960 * DEFAULT_TEMPO, 64)>>
    /\ active = <<>>

\* the loop takes a note-off, or a note-on with velocity 0, whose key is
\* sounding
C23_Case ==
    /\ LoopStep
    /\ IsNoteOff(msg')
    /\ KeyOf(msg') \in DictKeys(active)

C23_Effect ==
    LET key == KeyOf(msg')
        stored == DictGet(active, key)
    IN  /\ spans' = Append(spans,
                           [note |-> key[2], channel |-> key[1],
                            start |-> stored.start, end |-> current_time',
                            velocity |-> stored.vel])
        /\ DictKeys(active') = DictKeys(active) \ {key}
        /\ Len(active') = Len(active) - 1
        /\ \A k \in DictKeys(active) \ {key} :
              DictGet(active', k) = DictGet(active, k)

\* C23: a note-off and a note-on with velocity 0 have the same effect on a
\* key that is sounding: exactly one span is added, of that key, from the
\* stored start to the stream time after the event's delta, with the stored
\* velocity (not the event's); the key leaves the active-note table and
\* every other key's entry stays as it was.
C23_ZeroVelocityClosesLikeNoteOff == [][C23_Case => C23_Effect]_vars

\* a note-on with velocity 0 has closed one of two sounding notes, 480 ticks
\* after it was struck at velocity 100
C23_Witness ==
    /\ pc = "loop"
    /\ ticks_per_beat > 0
    /\ pos = 3
    /\ msg.type = "note_on" /\ msg.velocity = 0 /\ msg.time = 480
    /\ Len(spans) = 1
    /\ <<spans[1].channel, spans[1].note>> = KeyOf(msg)
    /\ spans[1].velocity = 100
    /\ spans[1].end = current_time
    /\ spans[1].end - spans[1].start = 480 * DEFAULT_TEMPO
    /\ Len(active) = 1

\* the loop takes a note-off, or a note-on with velocity 0, whose key is not
\* sounding
C24_Case ==
    /\ pc = "loop"
    /\ pos' = pos + 1
    /\ ticks_per_beat # 0
    /\ IsNoteOff(msg')
    /\ KeyOf(msg') \notin DictKeys(active)

\* C24: a note-off (or note-on with velocity 0) for a key that is idle
\* raises nothing, adds no span and leaves the active-note table and the
\* span list as they were, whichever other keys are sounding; the stream
\* time advances by the event's delta, converted at the tempo in force.
C24_IdleNoteOffIgnored ==
    [][C24_Case =>
          /\ pc' = "loop"
          /\ error' = error
          /\ spans' = spans
          /\ active' = active
          /\ tempo' = tempo
          /\ current_time' = current_time
                + tick2second(msg'.time, ticks_per_beat, tempo)]_vars

\* a note-off for (0, 60) taken 480 ticks on while channel 1 sounds pitch 60
\* and channel 0 sounds pitch 64: both stay, no span
C24_Witness ==
    /\ pc = "loop"
    /\ ticks_per_beat > 0
    /\ pos = 3
    /\ IsNoteOff(msg)
    /\ KeyOf(msg) = <<0, 60>>
    /\ msg.time = 480
    /\ current_time = 480 * DEFAULT_TEMPO
    /\ spans = <<>>
    /\ DictKeys(active) = {<<1, 60>>, <<0, 64>>}

-----------------------------------------------------------------------------
(* Properties of the extractor on a whole stream (SpecStream) *)

\* message k of the stream is a note-on with velocity > 0
C25_NoteOnAt(k) == IsNoteOn(merged[k])

\* message k arrives while its key is sounding: an earlier note-on of the
\* key has no note-off (or zero-velocity note-on) of the key after it
C25_SoundingAt(k) ==
    \E j \in 1..(k - 1) :
        /\ IsNoteOn(merged[j])
        /\ KeyOf(merged[j]) = KeyOf(merged[k])
        /\ \A i \in (j + 1)..(k - 1) :
              ~(IsNoteOff(merged[i]) /\ KeyOf(merged[i]) = KeyOf(merged[k]))

\* among the first n messages: the note-ons with velocity > 0, less those
\* that arrived while their key was sounding
C25_Count(n) ==
    Cardinality({k \in 1..n : C25_NoteOnAt(k)})
    - Cardinality({k \in 1..n : C25_NoteOnAt(k) /\ C25_SoundingAt(k)})

\* C25: the number of spans parse_midi_to_spans returns is the number of
\* note-ons with velocity > 0 in the stream minus the number of those that
\* arrived while their key was sounding, whatever control-change,
\* program-change, pitch-bend and tempo-change events the stream holds; and
\* after every message the spans emitted and the notes sounding add up to
\* that number for the messages taken so far.
C25_SpanConservation ==
    /\ pc = "done" => Len(spans) = C25_Count(Len(merged))
    /\ pc \in {"loop", "flush"} => Len(spans) + Len(active) = C25_Count(pos)

\* four messages with two note-ons with velocity > 0 and an event that is
\* no note: the second note-on found its key sounding, one span returned
C25_Witness ==
    /\ pc = "done"
    /\ Len(merged) = 5
    /\ Cardinality({k \in 1..4 : C25_NoteOnAt(k)}) = 2
    /\ \E k \in 1..4 : C25_NoteOnAt(k) /\ C25_SoundingAt(k)
    /\ \E k \in 1..4 :
          merged[k].type \in {"control_change", "program_change",
                              "pitchwheel", "set_tempo"}
    /\ Len(spans) = 1

-----------------------------------------------------------------------------
(* Properties of strip builder, packer and _write_png in a row (SpecCanvas) *)

C29_InRange(pixels) ==
    \A k \in 1..Len(pixels) : \A c \in 1..3 : pixels[k][c] \in 0..255

\* the inputs of the claim: pitches and velocities in 0..127, no background
\* or one with channels in 0..255
C29_InputsInRange ==
    /\ \A k \in 1..Len(spans) :
          spans[k].note \in 0..MidiMax /\ spans[k].velocity \in 0..MidiMax
    /\ background # None => \A c \in 1..3 : background[c] \in 0..255

\* C29: for spans with pitch and velocity in 0..127 and a background that
\* is unset or has its channels in 0..255, every pixel of the strip, while
\* it is built and when it is returned, and every pixel of the canvas the
\* packer returns has its three channels in 0..255; _write_png then finds
\* width * height pixels and a byte in each channel, and raises nothing.
C29_PixelsInRange ==
    C29_InputsInRange =>
        /\ C29_InRange(strip)
        /\ C29_InRange(data)
        /\ pc = "packed" => PngWritable(width, height, data)
        /\ pc = "raised" =>
              \/ error = "ZeroDivisionError"
              \/ error = "ValueError" /\ BadInput(strip, ratio) /\ data = <<>>
        /\ pc = "saved" => out_file # None

\* C# and C at velocity 127 overlap in the second of two samples: a filler
\* pixel, then the average of (255, 0, 255) and (255, 214, 10), then
\* padding; the canvas was written
C29_Witness ==
    /\ pc = "saved"
    /\ background = None
    /\ noise
    /\ Len(spans) = 2
    /\ Len(data) > 2
    /\ data[1] \in {<<0, 0, 0>>, <<255, 255, 255>>, <<255, 0, 255>>}
    /\ data[2] = <<255, 107, 132>>
    /\ data[Len(data)] \in NoisePixels
    /\ out_file # None

-----------------------------------------------------------------------------
(* Properties of midi_to_frame_list (SpecFrames) *)

\* C27 as stated: in the list midi_to_frame_list returns, time_s does not
\* decrease from a frame to the next, and neither does tick, for every
\* stream (of non-negative deltas, with a positive ticks_per_beat),
\* tempo changes after tick 0 included.
C27_FramesOrderedByTime ==
    (pc = "frames_done" /\ ticks_per_beat > 0) =>
        \A k \in 1..(Len(frames) - 1) :
            /\ frames[k].tick <= frames[k + 1].tick
            /\ frames[k].time_s <= frames[k + 1].time_s

-----------------------------------------------------------------------------
(* Properties of a stage run twice (SpecTwice) *)

\* C26 as stated: the filler and padding pixels come from a random source
\* the caller passes in, so a second run of the strip builder on the same
\* spans, pixels_per_second and background returns the strip the first run
\* returned, and a second run of the packer on an equal strip, ratio and
\* noise option returns the width, height and canvas of the first.
C26_SameArgumentsSameResult ==
    /\ (pc = "strip_done" /\ caller.first # None) => strip = caller.first
    /\ (pc = "packed" /\ caller.first # None) =>
          <<width, height, data>> = caller.first

-----------------------------------------------------------------------------
(* Properties of the share store (SpecShares) *)

\* C30 as stated: once every request has finished, every share id that a
\* request was told it had created is in the store SHARES_FILE holds, and
\* the share page finds its entry, whatever the interleaving of the
\* threads.
C30_CreatedSharesPersist ==
    (\A r \in DOMAIN handler : handler[r].pc = "done") =>
        \A r \in DOMAIN handler :
            handler[r].reply.ok =>
                /\ handler[r].reply.id \in DOMAIN shares_file
                /\ share_lookup(handler[r].reply.id) = handler[r].payload

-----------------------------------------------------------------------------
(* Properties of _write_png (SpecPng) *)

\* C20: for width >= 1, height >= 1 and a buffer of exactly width * height
\* pixels with channels in 0..255, decoding the bytes _write_png wrote
\* (chunks parsed, the data chunk inflated, the filter byte 0 of each row
\* dropped) gives the same width and height, and the same pixels in the
\* same row-major order.
C20_PngRoundTrip ==
    (pc = "decoded" /\ width >= 1 /\ height >= 1
        /\ PngWritable(width, height, data) /\ Len(data) = width * height) =>
        /\ decoded.ok
        /\ decoded.width = width
        /\ decoded.height = height
        /\ Len(decoded.pixels) = width * height
        /\ \A y \in 0..(height - 1) : \A x \in 0..(width - 1) :
              decoded.pixels[y * width + x + 1] = data[y * width + x + 1]

\* a 2 x 1 image of a white then a black pixel, read back
C20_Witness ==
    /\ pc = "decoded"
    /\ width = 2 /\ height = 1
    /\ data = <<(<<255, 255, 255>>), (<<0, 0, 0>>)>>
    /\ decoded = [ok |-> TRUE, width |-> 2, height |-> 1,
                  pixels |-> <<(<<255, 255, 255>>), (<<0, 0, 0>>)>>]

\* the frame that starts at index p of the bytes b: a big-endian length n,
\* four bytes of tag, n bytes of payload, four bytes of CRC
C21_Frame(b, p) ==
    IF p + 11 > Len(b) THEN [ok |-> FALSE]
    ELSE LET n == ReadU32(b, p)
         IN  IF p + 11 + n > Len(b) THEN [ok |-> FALSE]
             ELSE [ok |-> TRUE,
                   len |-> n,
                   tag |-> SubSeq(b, p + 4, p + 7),
                   payload |-> SubSeq(b, p + 8, p + 7 + n),
                   crc |-> SubSeq(b, p + 8 + n, p + 11 + n),
                   next |-> p + 12 + n]

C21_CrcOverTagAndPayload(f) == f.crc = Crc32Bytes(f.tag \o f.payload)

\* C21: the file _write_png has written is the 8 signature bytes, then three
\* chunks and nothing after them, each framed as 4-byte big-endian payload
\* length, 4-byte tag, payload, CRC-32 of tag and payload: IHDR with the 13
\* bytes width, height (big-endian, 4 bytes each), 8, 2, 0, 0, 0; IDAT with
\* the zlib stream of the scanlines; IEND with no payload.
C21_PngLayout ==
    (out_file # None /\ ~pillow) =>
        /\ Len(out_file) >= 8
        /\ SubSeq(out_file, 1, 8) = <<137, 80, 78, 71, 13, 10, 26, 10>>
        /\ LET ihdr == C21_Frame(out_file, 9)
           IN  /\ ihdr.ok
               /\ ihdr.len = 13
               /\ ihdr.tag = <<73, 72, 68, 82>>
               /\ ReadU32(ihdr.payload, 1) = width
               /\ ReadU32(ihdr.payload, 5) = height
               /\ SubSeq(ihdr.payload, 9, 13) = <<8, 2, 0, 0, 0>>
               /\ C21_CrcOverTagAndPayload(ihdr)
               /\ LET idat == C21_Frame(out_file, ihdr.next)
                  IN  /\ idat.ok
                      /\ idat.tag = <<73, 68, 65, 84>>
                      /\ zlib_decompress(idat.payload) =
                            [ok |-> TRUE,
                             bytes |-> RawScanlines(width, height, data)]
                      /\ C21_CrcOverTagAndPayload(idat)
                      /\ idat.next + 11 = Len(out_file)
                      \* the end chunk: no payload, the CRC-32 of "IEND"
                      /\ SubSeq(out_file, idat.next, Len(out_file)) =
                            <<0, 0, 0, 0, 73, 69, 78, 68, 174, 66, 96, 130>>

\* a 2 x 2 image written: 8 + (12 + 13) + (12 + 11 + 14) + 12 bytes
C21_Witness ==
    /\ pc = "saved"
    /\ width = 2 /\ height = 2
    /\ Len(out_file) = 82
    /\ SubSeq(out_file, 9, 16) = <<0, 0, 0, 13, 73, 72, 68, 82>>
    /\ SubSeq(out_file, 17, 24) = <<0, 0, 0, 2, 0, 0, 0, 2>>


-----------------------------------------------------------------------------
(* Properties of midi_to_image (SpecImage) *)

\* C17: there is a file at output_path only once midi_to_image has saved
\* it, after parsing, strip building and packing have all returned without
\* an exception, and the file then holds the whole final buffer of
\* width * height pixels; when a stage has raised (input missing, no note
\* spans, pixels_per_second 0) there is no file.
C17_NoPartialOutput ==
    /\ pc = "raised" => out_file = None
    /\ out_file # None =>
          /\ pc = "saved"
          /\ error = "none"
          /\ path_exists
          /\ spans # <<>>
          /\ width * height >= 1
          /\ Len(data) = width * height
          /\ data = SubSeq(strip, 1, width * height)
          /\ IF pillow
             THEN out_file = PillowFile(width, height, data)
             ELSE png_decode(out_file) =
                    [ok |-> TRUE, width |-> width, height |-> height,
                     pixels |-> data]

\* a file that exists and has messages but no notes: the packer refused the
\* empty strip and nothing was written
C17_Witness ==
    /\ pc = "raised"
    /\ error = "ValueError"
    /\ path_exists
    /\ pos >= 2
    /\ spans = <<>>
    /\ pixels_per_second > 0
    /\ out_file = None

=============================================================================
